---- MODULE Spec2Model ----
(***************************************************************************)
(* A model of the statement-processing core of expense-tracker-scraper:    *)
(*   - the EMI extractor (src/src/transactions/sync-emis.ts, lines         *)
(*     261-613: extractCardInfo, parseEMITransaction, extractEMIs,         *)
(*     addEMIInstallment, parseIndianDate, daysBetween), and               *)
(*   - the statement line parser                                           *)
(*     (src/src/transactions/extract-with-pdf-parse.ts,                    *)
(*     extractTransactionsFromPDF).                                        *)
(*                                                                         *)
(* Conventions.                                                            *)
(*   Text is a sequence of tokens (strings): a token stands for a maximal  *)
(*   run of non-blank characters (a word), " " for one blank character.    *)
(*   In the EMI extractor a date string is a record [fmt, d, m, y]:        *)
(*   fmt = "slash" is the text DD/MM/YYYY, fmt = "mon" the text            *)
(*   "DD Mon YYYY"; in the line parser a date is the text it was read as.  *)
(*   A JavaScript number that may be NaN is a record [nan, v].             *)
(*   Times are counted in days: the process runs in a time zone without    *)
(*   daylight saving (local midnights are 86,400,000 ms apart).            *)
(*   Amounts are integers (whole currency units), added exactly.           *)
(***************************************************************************)
EXTENDS Integers, Sequences, FiniteSets, TLC

(***************************************************************************)
(* Bounds of the model.                                                    *)
(***************************************************************************)
\* statement files read by one run of the general specification
MaxFiles == 2
\* transactions read by one run of the general specification
MaxTx == 3
\* transactions of the one statement ScanSpec reads
MaxScanTx == 3
\* statements of an input TwiceSpec runs twice
MaxTwiceFiles == 2
\* installments of each of the two purchases SplitSpec follows
Tenure == 6
\* lines of the statement text ParseSpec parses
MaxLines == 3
\* transactions of the one statement KeySpec reads
MaxKeyTx == 3
\* transactions of the one statement GstSpec reads
MaxGstTx == 4
\* transactions of the one statement RblSpec reads
MaxRblTx == 3

\* lines of the statement of FloatSpec
MaxFloatTx == 3

(***************************************************************************)
(* Program constants.                                                      *)
(***************************************************************************)
\* addEMIInstallment: dateGap >= 20
MinGapDays == 20
\* addEMIInstallment: the gap assumed for a plan without installments
NoDateGap == 999

VARIABLES
    pc,                  \* where extractEMIs is: "idle" (between files), "scan", "flush", "done"
    fi,                  \* number of extractions started (position in data.extractions)
    ntx,                 \* number of transactions read in this run
    cardInfo,            \* cardInfo of the extraction being processed
    txs,                 \* transactions[0..i-1] of the extraction being processed
    installmentRecords,  \* the Map installmentRecords, in insertion order
    ri,                  \* position of the for-of loop over installmentRecords.values()
    emiPlans,            \* the Map emiPlans, in insertion order: <<[key, plan], ...>>
    output,              \* the document written to emi-plans.json
    input,               \* data.extractions, when the run replays a given input
    run,                 \* which run of the pipeline this is (1 or 2)
    prevOutput,          \* the document the previous run wrote
    ppc,                 \* where extractTransactionsFromPDF is: "rbl", "merge", "match",
                         \* "fallback", "dedup", "returned" ("off": the parser is not run)
    pdfName,             \* what the function reads of path.basename(pdfPath).toLowerCase()
    rawText,             \* rawText.split('\n'): a sequence of lines
    li,                  \* lines (or combined lines) the current loop has handled
    combinedLines,       \* combinedLines
    currentLine,         \* currentLine
    transactions,        \* transactions
    uniqueTransactions,  \* uniqueTransactions, once computed
    files,               \* which files exist under data/raw-extracts: [extractions, plans]
    stderr,              \* what console.error has printed, in order
    exitCode,            \* exit codes of the processes: [extract, enrich], -1 while running
    epc,                 \* where enrichEMIs is: "off", "start", "enrich", "exited"
    prevUnique,          \* the transactions the parse before this one returned
    dropped              \* the line left out of rawText for this parse (0: none)

emiVars == <<pc, fi, ntx, cardInfo, txs, installmentRecords, ri, emiPlans, output,
             input, run, prevOutput>>

parseVars == <<ppc, pdfName, rawText, li, combinedLines, currentLine, transactions,
               uniqueTransactions>>

auxVars == <<files, stderr, exitCode, epc, prevUnique, dropped>>

vars == <<emiVars, parseVars, auxVars>>

(***************************************************************************)
(* Helpers on sequences and text.                                          *)
(***************************************************************************)
Abs(x) == IF x < 0 THEN -x ELSE x

Max2(a, b) == IF a > b THEN a ELSE b

\* String.prototype.startsWith on token sequences
StartsWith(s, prefix) ==
    /\ Len(prefix) <= Len(s)
    /\ SubSeq(s, 1, Len(prefix)) = prefix

RECURSIVE TrimStart(_)
TrimStart(s) ==
    IF Len(s) > 0 /\ Head(s) = " " THEN TrimStart(Tail(s)) ELSE s

RECURSIVE TrimEnd(_)
TrimEnd(s) ==
    IF Len(s) > 0 /\ s[Len(s)] = " " THEN TrimEnd(SubSeq(s, 1, Len(s) - 1)) ELSE s

\* String.prototype.trim
Trim(s) == TrimEnd(TrimStart(s))

\* Number -> decimal text, as a template literal prints it
NumStr(n) ==
    CASE n = 0 -> "0" [] n = 1 -> "1" [] n = 2 -> "2" [] n = 3 -> "3"
      [] n = 4 -> "4" [] n = 5 -> "5" [] n = 6 -> "6" [] n = 7 -> "7"
      [] n = 8 -> "8" [] n = 9 -> "9" [] n = 10 -> "10" [] n = 11 -> "11"
      [] n = 12 -> "12" [] n = 13 -> "13" [] n = 14 -> "14"

(***************************************************************************)
(* Dates: parseIndianDate and daysBetween.                                 *)
(***************************************************************************)
SlashDate(d, m, y) == [fmt |-> "slash", d |-> d, m |-> m, y |-> y]

IsLeap(y) == (y % 4 = 0 /\ y % 100 # 0) \/ y % 400 = 0

DaysInMonth(m, y) ==
    CASE m = 2 -> IF IsLeap(y) THEN 29 ELSE 28
      [] m \in {4, 6, 9, 11} -> 30
      [] OTHER -> 31

RECURSIVE DaysBeforeMonth(_, _)
DaysBeforeMonth(m, y) ==
    IF m <= 1 THEN 0 ELSE DaysBeforeMonth(m - 1, y) + DaysInMonth(m - 1, y)

LeapsBefore(y) == ((y - 1) \div 4) - ((y - 1) \div 100) + ((y - 1) \div 400)

\* new Date(year, month - 1, day).getTime(), in days since 1 January 1970
CivilDay(d, m, y) ==
    365 * (y - 1970) + (LeapsBefore(y) - LeapsBefore(1970)) + DaysBeforeMonth(m, y) + (d - 1)

\* parseIndianDate(dateStr).getTime(): dateStr.split('/') has three numeric
\* parts only for DD/MM/YYYY; any other text gives month = year = NaN, an
\* Invalid Date, whose time is NaN.
parseIndianDate(dateStr) ==
    IF dateStr.fmt = "slash"
    THEN [nan |-> FALSE, v |-> CivilDay(dateStr.d, dateStr.m, dateStr.y)]
    ELSE [nan |-> TRUE, v |-> 0]

\* daysBetween: Math.floor(Math.abs(a - b) / 86400000)
daysBetween(a, b) ==
    IF a.nan \/ b.nan
    THEN [nan |-> TRUE, v |-> 0]
    ELSE [nan |-> FALSE, v |-> Abs(a.v - b.v)]

(***************************************************************************)
(* extractCardInfo.  A file name is modelled by what the function reads of *)
(* it: whether it includes '6529', whether it includes '4315', and xxxx:   *)
(* "none" (no 'xxxx'), "nomatch" ('xxxx' but no /xxxx(\d{2})_/), or the    *)
(* two digits the pattern captures.                                        *)
(***************************************************************************)
extractCardInfo(filename) ==
    IF filename.has6529 THEN [bank |-> "ICICI Bank", last4 |-> "7003"]
    ELSE IF filename.has4315 THEN [bank |-> "ICICI Bank", last4 |-> "2003"]
    ELSE IF filename.xxxx # "none"
         THEN [bank |-> "RBL Bank",
               last4 |-> IF filename.xxxx = "nomatch" THEN "XX89" ELSE filename.xxxx]
    ELSE [bank |-> "Unknown Bank", last4 |-> "****"]

(***************************************************************************)
(* parseEMITransaction.  A description is modelled by what the function    *)
(* reads of it: interest / principal / gst say whether the upper-cased     *)
(* text includes 'INTEREST AMOUNT AMORTIZATION', 'PRINCIPAL AMOUNT         *)
(* AMORTIZATION', 'GST' (which 'IGST' includes); token is <<>> when        *)
(* /<(\d+)\/(\d+)>(.+)/ does not match, else <<[n, m, text]>> with the two *)
(* numbers parseInt reads and the text captured after '>'.                 *)
(* null is the falsy value of its field: "" / <<>> / 0.                    *)
(***************************************************************************)
NullParse == [type |-> "null", merchant |-> <<>>, installment |-> 0, total |-> 0]

parseEMITransaction(description) ==
    IF description.interest /\ Len(description.token) > 0
    THEN [type |-> "interest",
          merchant |-> Trim(description.token[1].text),
          installment |-> description.token[1].n,
          total |-> description.token[1].m]
    ELSE IF description.principal /\ Len(description.token) > 0
    THEN [type |-> "principal",
          merchant |-> Trim(description.token[1].text),
          installment |-> description.token[1].n,
          total |-> description.token[1].m]
    ELSE IF description.gst
    THEN [NullParse EXCEPT !.type = "gst"]
    ELSE NullParse

(***************************************************************************)
(* Amounts.  tx.amount is a JavaScript number, an IEEE-754 double, and     *)
(* every `+` of the program on amounts is the rounding addition of         *)
(* doubles.  A whole number of rupees is the integer itself, for which the *)
(* addition is exact; a double that is not whole is written FloatCode(k),  *)
(* k its rank in the ascending list below, so that < on the codes is < on  *)
(* the doubles.  FloatSums is the addition of doubles on the listed        *)
(* values: <<j, k>> :> l reads double(j) + double(k) = double(l), rounded  *)
(* to nearest, ties to even.                                               *)
(***************************************************************************)
FloatCode(k) == 1000000 + k

IsWhole(a) == a < FloatCode(1)

\* the doubles of FloatSpec in ascending order; FloatCode(k) stands for the k-th
\*     1  8.19
\*     2  16.38
\*     3  24.57
\*     4  27.78
\*     5  32.76
\*     6  35.97
\*     7  44.16
\*     8  52.349999999999994
\*     9  52.35
\*    10  55.56
\*    11  63.75
\*    12  71.94
\*    13  83.34
\*    14  91.53
\*    15  111.12
\*    16  1234.56
\*    17  1242.75
\*    18  1250.94
\*    19  1259.1299999999999
\*    20  1259.13
\*    21  1262.34
\*    22  1270.53
\*    23  1278.72
\*    24  1290.12
\*    25  1298.31
\*    26  1317.8999999999999
\*    27  2469.12
\*    28  2477.31
\*    29  2485.5
\*    30  2496.8999999999996
\*    31  2496.9
\*    32  2505.0899999999997
\*    33  2505.09
\*    34  2524.68
\*    35  2524.6800000000003
\*    36  3703.68
\*    37  3711.87
\*    38  3731.4599999999996
\*    39  3731.46
\*    40  4938.24
FloatSums ==
       <<1, 1>> :> 2 @@ <<1, 2>> :> 3 @@ <<1, 3>> :> 5 @@ <<1, 4>> :> 6
    @@ <<1, 6>> :> 7 @@ <<1, 7>> :> 8 @@ <<1, 10>> :> 11 @@ <<1, 11>> :> 12
    @@ <<1, 13>> :> 14 @@ <<1, 16>> :> 17 @@ <<1, 17>> :> 18 @@ <<1, 18>> :> 20
    @@ <<1, 21>> :> 22 @@ <<1, 22>> :> 23 @@ <<1, 24>> :> 25 @@ <<1, 27>> :> 28
    @@ <<1, 28>> :> 29 @@ <<1, 30>> :> 32 @@ <<1, 31>> :> 33 @@ <<1, 36>> :> 37
    @@ <<2, 2>> :> 5 @@ <<2, 4>> :> 7 @@ <<2, 6>> :> 8 @@ <<2, 10>> :> 12
    @@ <<2, 16>> :> 18 @@ <<2, 17>> :> 20 @@ <<2, 21>> :> 23 @@ <<2, 27>> :> 29
    @@ <<3, 4>> :> 9 @@ <<3, 16>> :> 19 @@ <<4, 4>> :> 10 @@ <<4, 6>> :> 11
    @@ <<4, 7>> :> 12 @@ <<4, 10>> :> 13 @@ <<4, 11>> :> 14 @@ <<4, 13>> :> 15
    @@ <<4, 16>> :> 21 @@ <<4, 17>> :> 22 @@ <<4, 18>> :> 23 @@ <<4, 21>> :> 24
    @@ <<4, 22>> :> 25 @@ <<4, 24>> :> 26 @@ <<4, 27>> :> 31 @@ <<4, 28>> :> 33
    @@ <<4, 30>> :> 34 @@ <<4, 31>> :> 35 @@ <<4, 36>> :> 39 @@ <<6, 6>> :> 12
    @@ <<6, 10>> :> 14 @@ <<6, 16>> :> 22 @@ <<6, 17>> :> 23 @@ <<6, 21>> :> 25
    @@ <<6, 27>> :> 32 @@ <<7, 16>> :> 23 @@ <<10, 10>> :> 15 @@ <<10, 16>> :> 24
    @@ <<10, 17>> :> 25 @@ <<10, 21>> :> 26 @@ <<10, 27>> :> 34 @@ <<11, 16>> :> 25
    @@ <<13, 16>> :> 26 @@ <<16, 16>> :> 27 @@ <<16, 17>> :> 28 @@ <<16, 18>> :> 29
    @@ <<16, 21>> :> 30 @@ <<16, 22>> :> 33 @@ <<16, 24>> :> 34 @@ <<16, 27>> :> 36
    @@ <<16, 28>> :> 37 @@ <<16, 30>> :> 38 @@ <<16, 31>> :> 39 @@ <<16, 36>> :> 40
    @@ <<17, 17>> :> 29 @@ <<17, 21>> :> 33 @@ <<17, 27>> :> 37 @@ <<21, 21>> :> 34
    @@ <<21, 27>> :> 39 @@ <<27, 27>> :> 40

\* a + b on numbers: exact on whole rupees, 0 + x = x, else the rounded sum
fadd(a, b) ==
    IF a = 0 THEN b
    ELSE IF b = 0 THEN a
    ELSE IF IsWhole(a) /\ IsWhole(b) THEN a + b
    ELSE FloatCode(FloatSums[<<(IF a <= b THEN a ELSE b) - FloatCode(0),
                               (IF a <= b THEN b ELSE a) - FloatCode(0)>>])

(***************************************************************************)
(* extractEMIs, lines 408-446: one iteration of the loop over the          *)
(* transactions of an extraction.  records is the Map installmentRecords   *)
(* as the sequence of its values in insertion order, each with its key.    *)
(***************************************************************************)
\* `${tx.date}|${parsed.merchant}|${parsed.installment}/${parsed.total}`
recordKey(tx, parsed) ==
    <<tx.date, parsed.merchant, parsed.installment, parsed.total>>

\* index of the record stored under key, 0 when the Map has none
RecordIndex(records, key) ==
    IF \E j \in 1..Len(records) : records[j].key = key
    THEN CHOOSE j \in 1..Len(records) : records[j].key = key
    ELSE 0

\* WithRecord putting the new record before the others
WithRecord_Front(records, tx, parsed, i) ==
    IF RecordIndex(records, recordKey(tx, parsed)) # 0
    THEN records
    ELSE <<[key |-> recordKey(tx, parsed),
            date |-> tx.date,
            merchant |-> parsed.merchant,
            installment |-> parsed.installment,
            total |-> parsed.total,
            principal |-> 0,
            interest |-> 0,
            gst |-> 0,
            txIndex |-> i]>> \o records

\* WithRecord that gives a new record the amount of a tax line of its date
\* read before it
WithRecord_PendingGst(records, tx, parsed, i) ==
    IF RecordIndex(records, recordKey(tx, parsed)) # 0
    THEN records
    ELSE Append(records,
                [key |-> recordKey(tx, parsed),
                 date |-> tx.date,
                 merchant |-> parsed.merchant,
                 installment |-> parsed.installment,
                 total |-> parsed.total,
                 principal |-> 0,
                 interest |-> 0,
                 gst |-> IF \E k \in 1..Len(txs) :
                               /\ parseEMITransaction(txs[k].description).type = "gst"
                               /\ txs[k].date = tx.date
                         THEN txs[CHOOSE k \in 1..Len(txs) :
                                     /\ parseEMITransaction(txs[k].description).type = "gst"
                                     /\ txs[k].date = tx.date].amount
                         ELSE 0,
                 txIndex |-> i])

\* lines 415-426: installmentRecords.set(recordKey, {...}) when absent
WithRecord(records, tx, parsed, i) ==
    IF RecordIndex(records, recordKey(tx, parsed)) # 0
    THEN records
    ELSE Append(records,
                [key |-> recordKey(tx, parsed),
                 date |-> tx.date,
                 merchant |-> parsed.merchant,
                 installment |-> parsed.installment,
                 total |-> parsed.total,
                 principal |-> 0,
                 interest |-> 0,
                 gst |-> 0,
                 txIndex |-> i])

\* AccumulateInto with the two components exchanged
AccumulateInto_Swapped(record, tx, parsed, i) ==
    IF parsed.type = "interest"
    THEN [record EXCEPT !.txIndex = i, !.principal = fadd(@, tx.amount)]
    ELSE [record EXCEPT !.txIndex = i, !.interest = fadd(@, tx.amount)]

\* AccumulateInto without the assignment record.txIndex = i
AccumulateInto_KeepIndex(record, tx, parsed, i) ==
    IF parsed.type = "interest"
    THEN [record EXCEPT !.interest = fadd(@, tx.amount)]
    ELSE [record EXCEPT !.principal = fadd(@, tx.amount)]

\* AccumulateInto with = in place of +=: a later line overwrites the amount
AccumulateInto_Overwrite(record, tx, parsed, i) ==
    IF parsed.type = "interest"
    THEN [record EXCEPT !.txIndex = i, !.interest = tx.amount]
    ELSE [record EXCEPT !.txIndex = i, !.principal = tx.amount]

\* lines 428-435: record.txIndex = i; record.interest/principal += tx.amount
AccumulateInto(record, tx, parsed, i) ==
    IF parsed.type = "interest"
    THEN [record EXCEPT !.txIndex = i, !.interest = fadd(@, tx.amount)]
    ELSE [record EXCEPT !.txIndex = i, !.principal = fadd(@, tx.amount)]

\* GstCandidates without the test gst === 0
GstCandidates_AnyGst(records, tx) ==
    {j \in 1..Len(records) : records[j].date = tx.date}

\* lines 438-440: the same-date records with gst === 0, stably sorted by
\* |txIndex - i|; the result is the index of the first one, 0 when none
GstCandidates(records, tx) ==
    {j \in 1..Len(records) : records[j].date = tx.date /\ records[j].gst = 0}

NearestCandidate(records, tx, i) ==
    IF GstCandidates(records, tx) = {}
    THEN 0
    ELSE CHOOSE j \in GstCandidates(records, tx) :
            \A k \in GstCandidates(records, tx) :
                \/ Abs(records[j].txIndex - i) < Abs(records[k].txIndex - i)
                \/ (Abs(records[j].txIndex - i) = Abs(records[k].txIndex - i) /\ j <= k)

\* lines 442-444: sameDateCandidates[0].gst = tx.amount
AssignGst(records, tx, i) ==
    IF NearestCandidate(records, tx, i) = 0
    THEN records
    ELSE [records EXCEPT ![NearestCandidate(records, tx, i)].gst = tx.amount]

\* Is this an installment line the loop keeps (line 412)?
IsInstallmentLine(parsed) ==
    /\ parsed.type \in {"interest", "principal"}
    /\ parsed.merchant # <<>>
    /\ parsed.installment # 0
    /\ parsed.total # 0

\* the loop body for transactions[i] = tx
ScanStep(records, tx, i) ==
    IF IsInstallmentLine(parseEMITransaction(tx.description))
    THEN [WithRecord(records, tx, parseEMITransaction(tx.description), i)
            EXCEPT ![RecordIndex(WithRecord(records, tx, parseEMITransaction(tx.description), i),
                                 recordKey(tx, parseEMITransaction(tx.description)))] =
                AccumulateInto(@, tx, parseEMITransaction(tx.description), i)]
    ELSE IF parseEMITransaction(tx.description).type = "gst"
    THEN AssignGst(records, tx, i)
    ELSE records

(***************************************************************************)
(* Array.prototype.sort with the comparator                                *)
(*   (a, b) => parseIndianDate(a.date).getTime() - parseIndianDate(b.date).getTime() *)
(* The sort is stable (ECMAScript 2019); a NaN result counts as +0.        *)
(***************************************************************************)
DateCompare(a, b) ==
    IF parseIndianDate(a.date).nan \/ parseIndianDate(b.date).nan
    THEN 0
    ELSE parseIndianDate(a.date).v - parseIndianDate(b.date).v

\* InsertByDate that leaves x where push() has put it, behind all the others
InsertByDate_Unsorted(sorted, x) == Append(sorted, x)

\* x placed behind the last element of sorted that does not sort after it
RECURSIVE InsertByDate(_, _)
InsertByDate(sorted, x) ==
    IF Len(sorted) = 0 \/ DateCompare(sorted[Len(sorted)], x) <= 0
    THEN Append(sorted, x)
    ELSE Append(InsertByDate(SubSeq(sorted, 1, Len(sorted) - 1), x), sorted[Len(sorted)])

RECURSIVE SortByDate(_)
SortByDate(installments) ==
    IF Len(installments) <= 1
    THEN installments
    ELSE InsertByDate(SortByDate(SubSeq(installments, 1, Len(installments) - 1)),
                      installments[Len(installments)])

(***************************************************************************)
(* reduce() over a plan's installments.                                    *)
(***************************************************************************)
RECURSIVE MaxInstallment(_)
MaxInstallment(installments) ==
    IF Len(installments) = 0
    THEN 0
    ELSE Max2(MaxInstallment(SubSeq(installments, 1, Len(installments) - 1)),
              installments[Len(installments)].installment_number)

RECURSIVE SumPrincipal(_)
SumPrincipal(installments) ==
    IF Len(installments) = 0 THEN 0
    ELSE fadd(SumPrincipal(SubSeq(installments, 1, Len(installments) - 1)),
              installments[Len(installments)].principal)

RECURSIVE SumInterest(_)
SumInterest(installments) ==
    IF Len(installments) = 0 THEN 0
    ELSE fadd(SumInterest(SubSeq(installments, 1, Len(installments) - 1)),
              installments[Len(installments)].interest)

\* SumGst that leaves the tax amounts out
SumGst_Zero(installments) == 0

RECURSIVE SumGst(_)
SumGst(installments) ==
    IF Len(installments) = 0 THEN 0
    ELSE fadd(SumGst(SubSeq(installments, 1, Len(installments) - 1)),
              installments[Len(installments)].gst)

RECURSIVE SumTotalAmount(_)
SumTotalAmount(installments) ==
    IF Len(installments) = 0 THEN 0
    ELSE fadd(SumTotalAmount(SubSeq(installments, 1, Len(installments) - 1)),
              installments[Len(installments)].total_amount)

(***************************************************************************)
(* addEMIInstallment.  plans is the Map emiPlans as the sequence of its    *)
(* entries [key, plan] in insertion order; a key is the token sequence of  *)
(* the string `${last4}_${merchant}_${total}_${sequence}`.                 *)
(***************************************************************************)
\* line 534
baseKey(emiData, card) ==
    <<card.last4, "_">> \o emiData.merchant \o <<"_", NumStr(emiData.total)>>

\* line 537: the positions of the keys that start with `${baseKey}_`
candidateKeys(plans, emiData, card) ==
    SelectSeq([j \in 1..Len(plans) |-> j],
              LAMBDA j : StartsWith(plans[j].key, baseKey(emiData, card) \o <<"_">>))

\* lines 544-547
dateGap(plan, emiData) ==
    IF Len(plan.installments) > 0
    THEN daysBetween(parseIndianDate(plan.installments[Len(plan.installments)].date),
                     parseIndianDate(emiData.date))
    ELSE [nan |-> FALSE, v |-> NoDateGap]

\* canAppend without the test on the installment number
canAppend_GapOnly(plan, emiData) ==
    /\ ~dateGap(plan, emiData).nan
    /\ dateGap(plan, emiData).v >= MinGapDays

\* canAppend with a gap that is NaN taken as large enough
canAppend_NaNPasses(plan, emiData) ==
    /\ emiData.installment > MaxInstallment(plan.installments)
    /\ (dateGap(plan, emiData).nan \/ dateGap(plan, emiData).v >= MinGapDays)

\* lines 549-551
canAppend(plan, emiData) ==
    /\ emiData.installment > MaxInstallment(plan.installments)
    /\ ~dateGap(plan, emiData).nan
    /\ dateGap(plan, emiData).v >= MinGapDays

\* FirstAppendable taking the last candidate that can take the record
RECURSIVE FirstAppendable_Last(_, _, _)
FirstAppendable_Last(plans, candidates, emiData) ==
    IF Len(candidates) = 0 THEN 0
    ELSE IF FirstAppendable_Last(plans, Tail(candidates), emiData) # 0
    THEN FirstAppendable_Last(plans, Tail(candidates), emiData)
    ELSE IF canAppend(plans[Head(candidates)].plan, emiData) THEN Head(candidates)
    ELSE 0

\* lines 541-557: the position of the first candidate that can take the
\* record, 0 when there is none
RECURSIVE FirstAppendable(_, _, _)
FirstAppendable(plans, candidates, emiData) ==
    IF Len(candidates) = 0 THEN 0
    ELSE IF canAppend(plans[Head(candidates)].plan, emiData) THEN Head(candidates)
    ELSE FirstAppendable(plans, Tail(candidates), emiData)

\* lines 559-564
keyToUse(plans, emiData, card) ==
    IF FirstAppendable(plans, candidateKeys(plans, emiData, card), emiData) # 0
    THEN plans[FirstAppendable(plans, candidateKeys(plans, emiData, card), emiData)].key
    ELSE baseKey(emiData, card)
         \o <<"_", NumStr(Len(candidateKeys(plans, emiData, card)) + 1)>>

\* position of key in the Map, 0 when absent
PlanIndex(plans, key) ==
    IF \E j \in 1..Len(plans) : plans[j].key = key
    THEN CHOOSE j \in 1..Len(plans) : plans[j].key = key
    ELSE 0

NoDate == [fmt |-> "undefined", d |-> 0, m |-> 0, y |-> 0]

\* lines 567-582
NewPlan(emiData, card) ==
    [merchant |-> emiData.merchant,
     card_last4 |-> card.last4,
     card_bank |-> card.bank,
     total_installments |-> emiData.total,
     amount_financed |-> 0,
     total_interest |-> 0,
     total_gst |-> 0,
     total_amount |-> 0,
     monthly_emi |-> <<0, 1>>,
     installments_paid |-> emiData.installment,
     remaining_installments |-> emiData.total,
     installments |-> <<>>,
     status |-> "active",
     first_installment_date |-> emiData.date,
     last_installment_date |-> NoDate]

\* lines 566-583
WithPlan(plans, key, emiData, card) ==
    IF PlanIndex(plans, key) # 0
    THEN plans
    ELSE Append(plans, [key |-> key, plan |-> NewPlan(emiData, card)])

\* NewInstallment with the tax left out of the total
NewInstallment_TotalWithoutGst(emiData) ==
    [date |-> emiData.date,
     installment_number |-> emiData.installment,
     total_installments |-> emiData.total,
     principal |-> emiData.principal,
     interest |-> emiData.interest,
     gst |-> emiData.gst,
     total_amount |-> fadd(emiData.principal, emiData.interest)]

\* lines 587-595
NewInstallment(emiData) ==
    [date |-> emiData.date,
     installment_number |-> emiData.installment,
     total_installments |-> emiData.total,
     principal |-> emiData.principal,
     interest |-> emiData.interest,
     gst |-> emiData.gst,
     total_amount |-> fadd(fadd(emiData.principal, emiData.interest), emiData.gst)]

\* Recount left out: the plan keeps the counts it was created with
Recount_Skipped(plan) == plan

\* lines 597-599
Recount(plan) ==
    [plan EXCEPT
        !.installments_paid = MaxInstallment(plan.installments),
        !.remaining_installments =
            Max2(0, plan.total_installments - MaxInstallment(plan.installments))]

\* PushInstallment setting the status from the new count as well
PushInstallment_WithStatus(plan, emiData) ==
    [Recount([plan EXCEPT
        !.installments = SortByDate(Append(plan.installments, NewInstallment(emiData)))])
     EXCEPT !.status =
        IF Max2(0, plan.total_installments
                     - MaxInstallment(Append(plan.installments, NewInstallment(emiData)))) = 0
        THEN "completed" ELSE "active"]

\* PushInstallment that starts the list over with the new installment
PushInstallment_Replacing(plan, emiData) ==
    Recount([plan EXCEPT !.installments = <<NewInstallment(emiData)>>])

\* lines 585-599
PushInstallment(plan, emiData) ==
    Recount([plan EXCEPT
        !.installments = SortByDate(Append(plan.installments, NewInstallment(emiData)))])

addEMIInstallment(plans, emiData, card) ==
    [WithPlan(plans, keyToUse(plans, emiData, card), emiData, card)
        EXCEPT ![PlanIndex(WithPlan(plans, keyToUse(plans, emiData, card), emiData, card),
                           keyToUse(plans, emiData, card))].plan =
            PushInstallment(@, emiData)]

\* lines 449-457: the argument extractEMIs passes for one record
emiDataOf(emiRecord) ==
    [date |-> emiRecord.date,
     merchant |-> emiRecord.merchant,
     installment |-> emiRecord.installment,
     total |-> emiRecord.total,
     principal |-> emiRecord.principal,
     interest |-> emiRecord.interest,
     gst |-> emiRecord.gst]

(***************************************************************************)
(* extractEMIs, lines 462-500: finalisation and the output document.       *)
(* monthly_emi is the quotient <<dividend, divisor>>.                      *)
(***************************************************************************)
\* planStatus off by one
planStatus_OffByOne(remaining) == IF remaining <= 1 THEN "completed" ELSE "active"

\* line 479
planStatus(remaining) == IF remaining = 0 THEN "completed" ELSE "active"

\* lines 463-486
FinalizePlan(plan) ==
    [plan EXCEPT
        !.amount_financed = SumPrincipal(plan.installments),
        !.total_interest = SumInterest(plan.installments),
        !.total_gst = SumGst(plan.installments),
        !.total_amount = fadd(fadd(SumPrincipal(plan.installments),
                                   SumInterest(plan.installments)),
                              SumGst(plan.installments)),
        !.monthly_emi = IF Len(plan.installments) > 0
                        THEN <<SumTotalAmount(plan.installments), Len(plan.installments)>>
                        ELSE <<0, 1>>,
        !.installments_paid = MaxInstallment(plan.installments),
        !.remaining_installments =
            Max2(0, plan.total_installments - MaxInstallment(plan.installments)),
        !.status =
            planStatus(Max2(0, plan.total_installments - MaxInstallment(plan.installments))),
        !.installments = SortByDate(plan.installments),
        !.first_installment_date =
            IF Len(plan.installments) > 0
            THEN SortByDate(plan.installments)[1].date ELSE NoDate,
        !.last_installment_date =
            IF Len(plan.installments) > 0
            THEN SortByDate(plan.installments)[Len(plan.installments)].date ELSE NoDate]

\* emiList over a container whose iteration order changes from run to run
emiList_RunOrder(plans) ==
    [j \in 1..Len(plans) |->
        FinalizePlan(plans[IF run = 1 THEN j ELSE Len(plans) + 1 - j].plan)]

\* line 462: Array.from(emiPlans.values()).map(...)
emiList(plans) == [j \in 1..Len(plans) |-> FinalizePlan(plans[j].plan)]

\* line 499: sort((a, b) => b.amount_financed - a.amount_financed), stable
RECURSIVE InsertByAmount(_, _)
InsertByAmount(sorted, x) ==
    IF Len(sorted) = 0 \/ x.amount_financed - sorted[Len(sorted)].amount_financed <= 0
    THEN Append(sorted, x)
    ELSE Append(InsertByAmount(SubSeq(sorted, 1, Len(sorted) - 1), x), sorted[Len(sorted)])

RECURSIVE SortByAmount(_)
SortByAmount(list) ==
    IF Len(list) <= 1
    THEN list
    ELSE InsertByAmount(SortByAmount(SubSeq(list, 1, Len(list) - 1)), list[Len(list)])

RECURSIVE SumOver(_, _)
SumOver(list, field) ==
    IF Len(list) = 0 THEN 0
    ELSE fadd(SumOver(SubSeq(list, 1, Len(list) - 1), field), list[Len(list)][field])

\* lines 491-500; now is what new Date().toISOString() reads
OutputDocument(plans, now) ==
    [extractedAt |-> now,
     totalEMIPlans |-> Len(emiList(plans)),
     activeEMIs |-> Len(SelectSeq(emiList(plans), LAMBDA e : e.status = "active")),
     completedEMIs |-> Len(SelectSeq(emiList(plans), LAMBDA e : e.status = "completed")),
     totalAmountFinanced |-> SumOver(emiList(plans), "amount_financed"),
     totalInterestPaid |-> SumOver(emiList(plans), "total_interest"),
     totalGSTPaid |-> SumOver(emiList(plans), "total_gst"),
     emiPlans |-> SortByAmount(emiList(plans))]

NoOutput ==
    [extractedAt |-> 0, totalEMIPlans |-> 0, activeEMIs |-> 0, completedEMIs |-> 0,
     totalAmountFinanced |-> 0, totalInterestPaid |-> 0, totalGSTPaid |-> 0,
     emiPlans |-> <<>>]

(***************************************************************************)
(* The steps of extractEMIs.                                               *)
(***************************************************************************)
NoCard == [bank |-> "", last4 |-> ""]

EmiInit ==
    /\ pc = "idle"
    /\ fi = 0
    /\ ntx = 0
    /\ cardInfo = NoCard
    /\ txs = <<>>
    /\ installmentRecords = <<>>
    /\ ri = 0
    /\ emiPlans = <<>>
    /\ output = NoOutput
    /\ run = 1
    /\ prevOutput = NoOutput

\* extractTransactionsFromPDF is not running
ParseOff ==
    /\ ppc = "off"
    /\ pdfName = [xxxx |-> FALSE, has6529 |-> FALSE, has4315 |-> FALSE]
    /\ rawText = <<>>
    /\ li = 0
    /\ combinedLines = <<>>
    /\ currentLine = <<>>
    /\ transactions = <<>>
    /\ uniqueTransactions = <<>>

\* the input file is there, nothing is printed, enrichEMIs is not run, and
\* no parse came before
AuxOff ==
    /\ files = [extractions |-> TRUE, plans |-> FALSE]
    /\ stderr = <<>>
    /\ exitCode = [extract |-> -1, enrich |-> -1]
    /\ epc = "off"
    /\ prevUnique = <<>>
    /\ dropped = 0

\* lines 399-406: the next extraction of data.extractions is taken up
StartFile(filename) ==
    /\ pc = "idle"
    /\ pc' = "scan"
    /\ fi' = fi + 1
    /\ cardInfo' = extractCardInfo(filename)
    /\ txs' = <<>>
    /\ installmentRecords' = <<>>
    /\ ri' = 0
    /\ UNCHANGED <<ntx, emiPlans, output, input, run, prevOutput>>
    /\ UNCHANGED parseVars
    /\ UNCHANGED auxVars

\* lines 408-446: one iteration, for transactions[i] = tx with i = Len(txs)
ScanTx(tx) ==
    /\ pc = "scan"
    /\ txs' = Append(txs, tx)
    /\ ntx' = ntx + 1
    /\ installmentRecords' = ScanStep(installmentRecords, tx, Len(txs))
    /\ UNCHANGED <<pc, fi, cardInfo, ri, emiPlans, output, input, run, prevOutput>>
    /\ UNCHANGED parseVars
    /\ UNCHANGED auxVars

\* line 408: i reaches transactions.length; line 448 starts
EndScan ==
    /\ pc = "scan"
    /\ pc' = "flush"
    /\ ri' = 1
    /\ UNCHANGED <<fi, ntx, cardInfo, txs, installmentRecords, emiPlans, output, input,
                   run, prevOutput>>
    /\ UNCHANGED parseVars
    /\ UNCHANGED auxVars

\* lines 448-458: one addEMIInstallment call
AddRecord ==
    /\ pc = "flush"
    /\ ri <= Len(installmentRecords)
    /\ emiPlans' = addEMIInstallment(emiPlans, emiDataOf(installmentRecords[ri]), cardInfo)
    /\ ri' = ri + 1
    /\ UNCHANGED <<pc, fi, ntx, cardInfo, txs, installmentRecords, output, input, run,
                   prevOutput>>
    /\ UNCHANGED parseVars
    /\ UNCHANGED auxVars

\* line 458: the records of the extraction are all inserted
EndFile ==
    /\ pc = "flush"
    /\ ri > Len(installmentRecords)
    /\ pc' = "idle"
    /\ UNCHANGED <<fi, ntx, cardInfo, txs, installmentRecords, ri, emiPlans, output, input,
                   run, prevOutput>>
    /\ UNCHANGED parseVars
    /\ UNCHANGED auxVars

\* lines 461-502: after the last extraction, the document is built and written
Finalize(now) ==
    /\ pc = "idle"
    /\ pc' = "done"
    /\ output' = OutputDocument(emiPlans, now)
    /\ UNCHANGED <<fi, ntx, cardInfo, txs, installmentRecords, ri, emiPlans, input, run,
                   prevOutput>>
    /\ UNCHANGED parseVars
    /\ UNCHANGED auxVars

(***************************************************************************)
(* Inputs.                                                                 *)
(***************************************************************************)
PrincipalLine(n, m, text) ==
    [interest |-> FALSE, principal |-> TRUE, gst |-> FALSE,
     token |-> <<[n |-> n, m |-> m, text |-> text]>>]

InterestLine(n, m, text) ==
    [interest |-> TRUE, principal |-> FALSE, gst |-> FALSE,
     token |-> <<[n |-> n, m |-> m, text |-> text]>>]

GstLine == [interest |-> FALSE, principal |-> FALSE, gst |-> TRUE, token |-> <<>>]

OtherLine == [interest |-> FALSE, principal |-> FALSE, gst |-> FALSE, token |-> <<>>]

Tx(date, description, amount) ==
    [date |-> date, description |-> description, amount |-> amount]

\* 20/01/2025, 08/02/2025 (19 days later), 09/02/2025 (20 days later)
Dates == {SlashDate(20, 1, 2025), SlashDate(8, 2, 2025), SlashDate(9, 2, 2025)}

File6529 == [has6529 |-> TRUE, has4315 |-> FALSE, xxxx |-> "none"]

File4315 == [has6529 |-> FALSE, has4315 |-> TRUE, xxxx |-> "none"]

Filenames == {File6529, File4315}

\* what new Date().toISOString() may read, in the order of time
Instants == {1, 2, 3}

(***************************************************************************)
(* Spec: any extractions, read file by file and line by line.              *)
(***************************************************************************)
TxDomain ==
    {Tx(d, PrincipalLine(n, 2, <<"NETFLIX">>), 500) : d \in Dates, n \in 1..2}
    \cup {Tx(SlashDate(20, 1, 2025), InterestLine(1, 2, <<"NETFLIX">>), 45),
          Tx(SlashDate(20, 1, 2025), GstLine, 18),
          Tx(SlashDate(20, 1, 2025), OtherLine, 500)}

Init ==
    /\ EmiInit
    /\ input = <<>>
    /\ ParseOff
    /\ AuxOff

Next ==
    \/ \E filename \in Filenames : fi < MaxFiles /\ StartFile(filename)
    \/ \E tx \in TxDomain : ntx < MaxTx /\ ScanTx(tx)
    \/ EndScan
    \/ AddRecord
    \/ EndFile
    \/ Finalize(1)

Spec == Init /\ [][Next]_vars

(***************************************************************************)
(* ScanSpec: one statement of any lines, among them installment tokens     *)
(* with the number 0 and with a blank merchant, and tax lines.             *)
(***************************************************************************)
ScanDates == {SlashDate(20, 1, 2025), SlashDate(8, 2, 2025)}

ScanTxDomain ==
    {Tx(d, PrincipalLine(n, 2, <<"NETFLIX">>), 500) : d \in ScanDates, n \in 1..2}
    \cup {Tx(d, InterestLine(1, 2, <<"NETFLIX">>), 45) : d \in ScanDates}
    \cup {Tx(d, GstLine, a) : d \in ScanDates, a \in {18, 9}}
    \cup {Tx(SlashDate(20, 1, 2025), PrincipalLine(0, 2, <<"NETFLIX">>), 500),
          Tx(SlashDate(20, 1, 2025), InterestLine(0, 2, <<"NETFLIX">>), 45),
          Tx(SlashDate(20, 1, 2025), PrincipalLine(1, 2, <<" ">>), 500),
          Tx(SlashDate(20, 1, 2025), OtherLine, 500)}

ScanNext ==
    \/ (fi = 0 /\ StartFile(File6529))
    \/ \E tx \in ScanTxDomain : Len(txs) < MaxScanTx /\ ScanTx(tx)
    \/ EndScan
    \/ AddRecord
    \/ EndFile
    \/ Finalize(1)

ScanSpec == Init /\ [][ScanNext]_vars

(***************************************************************************)
(* GstSpec: one statement whose lines all carry one date: the principal    *)
(* and the interest of an installment of NETFLIX, the principal of an      *)
(* installment of AMAZON, and tax lines.                                   *)
(***************************************************************************)
GstTxDomain ==
    {Tx(SlashDate(20, 1, 2025), PrincipalLine(1, 2, <<"NETFLIX">>), 500),
     Tx(SlashDate(20, 1, 2025), InterestLine(1, 2, <<"NETFLIX">>), 45),
     Tx(SlashDate(20, 1, 2025), PrincipalLine(1, 2, <<"AMAZON">>), 300),
     Tx(SlashDate(20, 1, 2025), GstLine, 18)}

GstNext ==
    \/ fi = 0 /\ StartFile(File6529)
    \/ \E tx \in GstTxDomain : Len(txs) < MaxGstTx /\ ScanTx(tx)
    \/ EndScan
    \/ AddRecord
    \/ EndFile
    \/ Finalize(1)

GstSpec == Init /\ [][GstNext]_vars

(***************************************************************************)
(* KeySpec: one statement of one card.  The merchants are SHOP, bought in  *)
(* 2 installments, and SHOP_2 (given by its parts), bought in 3: the keys  *)
(* of the plans of SHOP_2 start with the text `7003_SHOP_2_`, as those of  *)
(* SHOP do.  Some lines of SHOP carry a date in the form "DD Mon YYYY".    *)
(***************************************************************************)
MonDate(d, m, y) == [fmt |-> "mon", d |-> d, m |-> m, y |-> y]

\* "26 Dec 2025", "26 Jan 2026"
MonDates == {MonDate(26, 12, 2025), MonDate(26, 1, 2026)}

\* 20/01/2025 and the days 19, 20 and 40 days after it
KeyDates == Dates \cup {SlashDate(1, 3, 2025)}

KeyTxDomain ==
    {Tx(d, PrincipalLine(n, 2, <<"SHOP">>), 500) : d \in KeyDates \cup MonDates, n \in 1..2}
        \cup {Tx(d, PrincipalLine(n, 3, <<"SHOP", "_", "2">>), 300) : d \in Dates, n \in 1..2}

KeyNext ==
    \/ fi = 0 /\ StartFile(File6529)
    \/ \E tx \in KeyTxDomain : Len(txs) < MaxKeyTx /\ ScanTx(tx)
    \/ EndScan
    \/ AddRecord
    \/ EndFile
    \/ Finalize(1)

KeySpec == Init /\ [][KeyNext]_vars

(***************************************************************************)
(* RblSpec: one statement of the RBL card, with the installments <n/3> of  *)
(* one purchase at SHOP; the lines carry their date either as DD/MM/YYYY   *)
(* or in the form "DD Mon YYYY" the RBL layout of the parser returns.      *)
(***************************************************************************)
FileRbl == [has6529 |-> FALSE, has4315 |-> FALSE, xxxx |-> "89"]

\* 20/01/2025, 09/02/2025, 01/03/2025: 20 days apart each;
\* "26 Dec 2025", "26 Jan 2026", "26 Feb 2026": 31 days apart each
RblDates ==
    {SlashDate(20, 1, 2025), SlashDate(9, 2, 2025), SlashDate(1, 3, 2025),
     MonDate(26, 12, 2025), MonDate(26, 1, 2026), MonDate(26, 2, 2026)}

RblTxDomain == {Tx(d, PrincipalLine(n, 3, <<"SHOP">>), 500) : d \in RblDates, n \in 1..3}

RblNext ==
    \/ fi = 0 /\ StartFile(FileRbl)
    \/ \E tx \in RblTxDomain : Len(txs) < MaxRblTx /\ ScanTx(tx)
    \/ EndScan
    \/ AddRecord
    \/ EndFile
    \/ Finalize(1)

RblSpec == Init /\ [][RblNext]_vars

(***************************************************************************)
(* FloatSpec: one statement with the installments <1/2> and <2/2> of one   *)
(* purchase at SHOP, 20 days apart, whose amounts are not whole rupees:    *)
(* principal 1234.56, interest 27.78, tax 8.19.                            *)
(***************************************************************************)
Rs1234_56 == FloatCode(16)

Rs27_78 == FloatCode(4)

Rs8_19 == FloatCode(1)

FloatDates == {SlashDate(20, 1, 2025), SlashDate(9, 2, 2025)}

FloatTxDomain ==
    {Tx(d, PrincipalLine(n, 2, <<"SHOP">>), Rs1234_56) : d \in FloatDates, n \in 1..2}
    \cup {Tx(d, InterestLine(n, 2, <<"SHOP">>), Rs27_78) : d \in FloatDates, n \in 1..2}
    \cup {Tx(d, GstLine, Rs8_19) : d \in FloatDates}

FloatNext ==
    \/ fi = 0 /\ StartFile(File6529)
    \/ \E tx \in FloatTxDomain : Len(txs) < MaxFloatTx /\ ScanTx(tx)
    \/ EndScan
    \/ AddRecord
    \/ EndFile
    \/ Finalize(1)

FloatSpec == Init /\ [][FloatNext]_vars

(***************************************************************************)
(* IoSpec: the two programs as processes.  extractEMIs reads               *)
(* pdf-parse-extractions.json, which exists or not, assembles the plans of *)
(* one statement and writes emi-plans.json; enrichEMIs, run after it,      *)
(* reads emi-plans.json, which exists when extractEMIs wrote it or when an *)
(* earlier run left it.  What enrichEMIs computes from the plans is left   *)
(* out: only how it ends is modelled.                                      *)
(***************************************************************************)
\* what console.error prints for the rejection of fs.readFile
ENOENT == "Error: ENOENT: no such file or directory, open 'pdf-parse-extractions.json'"

PlansNotFound == "EMI plans file not found. Run: npm run extract:cc:emis first"

\* line 392: await fs.readFile(inputPath); when it rejects, so does
\* extractEMIs(), and lines 612-613 print the error: the process then ends
\* with nothing left to do, exit code 0
ReadExtractions ==
    /\ epc = "start"
    /\ IF files.extractions
          THEN /\ epc' = "run"
               /\ UNCHANGED <<stderr, exitCode>>
          ELSE /\ epc' = "extracted"
               /\ stderr' = Append(stderr, ENOENT)
               /\ exitCode' = [exitCode EXCEPT !.extract = 0]
    /\ UNCHANGED <<files, prevUnique, dropped>>
    /\ UNCHANGED emiVars
    /\ UNCHANGED parseVars

\* lines 502-527, 612: extractEMIs() resolves and the process ends
ExitExtract ==
    /\ epc = "run"
    /\ pc = "done"
    /\ epc' = "extracted"
    /\ exitCode' = [exitCode EXCEPT !.extract = 0]
    /\ UNCHANGED <<files, stderr, prevUnique, dropped>>
    /\ UNCHANGED emiVars
    /\ UNCHANGED parseVars

\* fs.existsSync(inputPath) in enrichEMIs
PlansFileExists == files.plans \/ output # NoOutput

enrichEMIs ==
    /\ epc = "extracted"
    /\ epc' = "enriched"
    /\ IF ~PlansFileExists
          THEN /\ stderr' = Append(stderr, PlansNotFound)
               /\ exitCode' = [exitCode EXCEPT !.enrich = 1]
          ELSE /\ exitCode' = [exitCode EXCEPT !.enrich = 0]
               /\ UNCHANGED stderr
    /\ UNCHANGED <<files, prevUnique, dropped>>
    /\ UNCHANGED emiVars
    /\ UNCHANGED parseVars

IoInit ==
    /\ EmiInit
    /\ input = <<>>
    /\ ParseOff
    /\ files \in [extractions : BOOLEAN, plans : BOOLEAN]
    /\ stderr = <<>>
    /\ exitCode = [extract |-> -1, enrich |-> -1]
    /\ epc = "start"
    /\ prevUnique = <<>>
    /\ dropped = 0

IoNext ==
    \/ ReadExtractions
    \/ epc = "run" /\ fi = 0 /\ StartFile(File6529)
    \/ \E tx \in GstTxDomain : Len(txs) < MaxGstTx /\ ScanTx(tx)
    \/ EndScan
    \/ AddRecord
    \/ EndFile
    \/ epc = "run" /\ Finalize(1)
    \/ ExitExtract
    \/ enrichEMIs

IoSpec == IoInit /\ [][IoNext]_vars

(***************************************************************************)
(* Runs over a given input: data.extractions is read from input.           *)
(***************************************************************************)
ReplayStartFile ==
    /\ fi < Len(input)
    /\ StartFile(input[fi + 1].filename)

ReplayScanTx ==
    /\ pc = "scan"
    /\ Len(txs) < Len(input[fi].transactions)
    /\ ScanTx(input[fi].transactions[Len(txs) + 1])

ReplayEndScan ==
    /\ pc = "scan"
    /\ Len(txs) = Len(input[fi].transactions)
    /\ EndScan

\* the document is written after the last extraction, at an instant after
\* the one the previous run wrote its document at
ReplayFinalize ==
    /\ fi = Len(input)
    /\ \E now \in Instants : now > prevOutput.extractedAt /\ Finalize(now)

\* lines 612-613: the program is run again on the same file of extractions;
\* the document of the run before is kept for comparison
Restart ==
    /\ pc = "done"
    /\ run = 1
    /\ run' = 2
    /\ prevOutput' = output
    /\ pc' = "idle"
    /\ fi' = 0
    /\ ntx' = 0
    /\ cardInfo' = NoCard
    /\ txs' = <<>>
    /\ installmentRecords' = <<>>
    /\ ri' = 0
    /\ emiPlans' = <<>>
    /\ output' = NoOutput
    /\ UNCHANGED input
    /\ UNCHANGED parseVars
    /\ UNCHANGED auxVars

SeqsUpTo(S, n) == UNION {[1..k -> S] : k \in 0..n}

(***************************************************************************)
(* TwiceSpec: the pipeline is run twice on the same extractions.           *)
(***************************************************************************)
Statements ==
    {<<>>,
     <<Tx(SlashDate(20, 1, 2025), PrincipalLine(1, 2, <<"NETFLIX">>), 500),
       Tx(SlashDate(20, 1, 2025), InterestLine(1, 2, <<"NETFLIX">>), 45),
       Tx(SlashDate(20, 1, 2025), GstLine, 18)>>,
     <<Tx(SlashDate(9, 2, 2025), PrincipalLine(2, 2, <<"NETFLIX">>), 500)>>,
     <<Tx(SlashDate(8, 2, 2025), PrincipalLine(1, 2, <<"NETFLIX">>), 500),
       Tx(SlashDate(9, 2, 2025), PrincipalLine(2, 2, <<"NETFLIX">>), 500)>>,
     <<Tx(SlashDate(20, 1, 2025), PrincipalLine(1, 2, <<"NETFLIX">>), 500),
       Tx(SlashDate(20, 1, 2025), PrincipalLine(1, 2, <<"NETFLIX">>), 500)>>}

Extractions ==
    {[filename |-> f, transactions |-> t] : f \in Filenames, t \in Statements}

TwiceInit ==
    /\ EmiInit
    /\ input \in SeqsUpTo(Extractions, MaxTwiceFiles)
    /\ ParseOff
    /\ AuxOff

TwiceNext ==
    \/ ReplayStartFile
    \/ ReplayScanTx
    \/ ReplayEndScan
    \/ AddRecord
    \/ EndFile
    \/ ReplayFinalize
    \/ Restart

TwiceSpec == TwiceInit /\ [][TwiceNext]_vars

(***************************************************************************)
(* SplitSpec: one card, one merchant, one tenure, two purchases.  The      *)
(* first is billed monthly from January on day dayA, the second monthly    *)
(* from March on day dayB; statement k holds the lines of month k, each    *)
(* installment as a principal line and an interest line.  The input is the *)
(* statements of the first months, up to any month.                        *)
(***************************************************************************)
InstallmentLines(n, day, month, principal) ==
    <<Tx(SlashDate(day, month, 2025), PrincipalLine(n, Tenure, <<"AMAZON">>), principal),
      Tx(SlashDate(day, month, 2025), InterestLine(n, Tenure, <<"AMAZON">>), 45)>>

FirstPurchaseLines(month, dayA) ==
    IF month <= Tenure THEN InstallmentLines(month, dayA, month, 500) ELSE <<>>

SecondPurchaseLines(month, dayB) ==
    IF month >= 3 THEN InstallmentLines(month - 2, dayB, month, 300) ELSE <<>>

MonthStatement(month, dayA, dayB, order) ==
    [filename |-> File6529,
     transactions |->
        IF order = "first purchase first"
        THEN FirstPurchaseLines(month, dayA) \o SecondPurchaseLines(month, dayB)
        ELSE SecondPurchaseLines(month, dayB) \o FirstPurchaseLines(month, dayA)]

SplitInputs ==
    {[month \in 1..months |-> MonthStatement(month, dayA, dayB, order)] :
        months \in 0..Tenure + 2,
        dayA \in {5, 24},
        dayB \in {5, 15, 24},
        order \in {"first purchase first", "second purchase first"}}

SplitInit ==
    /\ EmiInit
    /\ input \in SplitInputs
    /\ ParseOff
    /\ AuxOff

SplitNext ==
    \/ ReplayStartFile
    \/ ReplayScanTx
    \/ ReplayEndScan
    \/ AddRecord
    \/ EndFile
    \/ ReplayFinalize

SplitSpec == SplitInit /\ [][SplitNext]_vars

(***************************************************************************)
(* The statement line parser, extractTransactionsFromPDF.                  *)
(* rawText is the sequence of its lines (rawText.split('\n')); a line is a *)
(* sequence of tokens.  What the regular expressions and the string        *)
(* functions read of a word is given by tables over the words the model's  *)
(* lines are made of.                                                      *)
(***************************************************************************)
\* the number of characters of a token
CharLen(w) ==
    CASE w \in {" ", "\n", "0"} -> 1
      [] w \in {"IN", "CR", "26"} -> 2
      [] w \in {"UPI", "Dec", "RBL"} -> 3
      [] w \in {"2025", "0.00", "BANK"} -> 4
      [] w \in {"25.00", "ICICI"} -> 5
      [] w \in {"AMAZON"} -> 6
      [] w \in {"PAYMENT", "Details"} -> 7
      [] w \in {"RECEIVED", "5,099.00"} -> 8
      [] w \in {"29/12/2025", "30/12/2025"} -> 10
      [] w \in {"12597931313", "12597931314", "Transaction", "Description"} -> 11

RECURSIVE TextLen(_)
\* String.prototype.length
TextLen(s) == IF Len(s) = 0 THEN 0 ELSE CharLen(Head(s)) + TextLen(Tail(s))

\* String.prototype.toLowerCase, word by word
LowerCase(w) ==
    CASE w = "IN" -> "in" [] w = "CR" -> "cr" [] w = "UPI" -> "upi"
      [] w = "Dec" -> "dec" [] w = "RBL" -> "rbl" [] w = "BANK" -> "bank"
      [] w = "ICICI" -> "icici" [] w = "AMAZON" -> "amazon"
      [] w = "PAYMENT" -> "payment" [] w = "RECEIVED" -> "received"
      [] w = "Details" -> "details" [] w = "Transaction" -> "transaction"
      [] w = "Description" -> "description"
      [] OTHER -> w

toLowerCase(s) == [i \in 1..Len(s) |-> LowerCase(s[i])]

\* String.prototype.includes for a needle given as tokens: none of the
\* model's words holds a needle's word as a proper part
includes(s, needle) ==
    \E i \in 0..(Len(s) - Len(needle)) : SubSeq(s, i + 1, i + Len(needle)) = needle

\* \s
IsSpace(w) == w \in {" ", "\n"}

\* the whole word matches \d+
IsDigits(w) == w \in {"0", "26", "2025", "12597931313", "12597931314"}

\* the whole word matches \d{2}\/\d{2}\/\d{4}
IsSlashDate(w) == w \in {"29/12/2025", "30/12/2025"}

\* the word matches \d{8,} up to a white space
IsSerial(w) == IsDigits(w) /\ CharLen(w) >= 8

\* the word starts with \d{8,}
StartsWithSerial(w) == IsSerial(w)

\* the whole word matches (?:Jan|Feb|...|Dec), case ignored
IsMonth(w) == LowerCase(w) = "dec"

\* the whole word matches [A-Za-z]{3}
IsThreeLetters(w) == w \in {"UPI", "Dec", "RBL"}

\* the whole word matches [\d,]+\.\d{2}
IsAmount(w) == w \in {"25.00", "0.00", "5,099.00"}

\* parseFloat(amtStr.replace(/,/g, ''))
parseAmount(amtStr) ==
    CASE amtStr = "25.00" -> 25
      [] amtStr = "0.00" -> 0
      [] amtStr = "5,099.00" -> 5099

\* the word ends with a digit
EndsWithDigit(w) == IsDigits(w) \/ IsSlashDate(w) \/ IsAmount(w)

\* what \d{1,2} captures at the end of a word, leftmost match first
LastDigits(w) ==
    CASE w = "0" -> "0"
      [] w = "26" -> "26"
      [] w \in {"2025", "29/12/2025", "30/12/2025"} -> "25"
      [] w = "12597931313" -> "13"
      [] w = "12597931314" -> "14"
      [] IsAmount(w) -> "00"

MinOf(S) == CHOOSE x \in S : \A y \in S : x <= y

RECURSIVE SkipSpace(_, _)
\* \s* from position i: the first position that holds no white space
SkipSpace(s, i) ==
    IF i <= Len(s) /\ IsSpace(s[i]) THEN SkipSpace(s, i + 1) ELSE i

(***************************************************************************)
(* \s+(.+?)\s+ between a head that ends at position h and a word at one of *)
(* the positions ends.  A candidate <<a, e>> gives the first \s+ the a      *)
(* characters after h and the group the positions h+a+1..e; the second \s+  *)
(* takes all white space after e.  The matcher tries the longest first \s+  *)
(* first and, for each, the shortest group first.                           *)
(***************************************************************************)
MiddleCandidates(s, h, ends) ==
    {c \in (1..(SkipSpace(s, h + 1) - h - 1)) \X ((h + 2)..Len(s)) :
        /\ h + c[1] < c[2]
        /\ \A j \in (h + c[1] + 1)..c[2] : s[j] # "\n"
        /\ SkipSpace(s, c[2] + 1) > c[2] + 1
        /\ SkipSpace(s, c[2] + 1) \in ends}

FirstCandidate(C) ==
    CHOOSE c \in C : \A d \in C : c[1] > d[1] \/ (c[1] = d[1] /\ c[2] <= d[2])

NoMatch == [ok |-> FALSE]

\* line 91: /^\d{2}\/\d{2}\/\d{4}\s+\d{8,}/.test(line)
IsTransactionStart(line) ==
    /\ Len(line) >= 3
    /\ IsSlashDate(line[1])
    /\ IsSpace(line[2])
    /\ SkipSpace(line, 2) <= Len(line)
    /\ StartsWithSerial(line[SkipSpace(line, 2)])

\* line 52: the match of the RBL pattern
rblMatch(line) ==
    LET m == SkipSpace(line, 2)
        y == SkipSpace(line, m + 1)
        q == Len(TrimEnd(line))
        headOk == /\ Len(line) >= 5
                  /\ IsDigits(line[1]) /\ CharLen(line[1]) <= 2
                  /\ IsSpace(line[2])
                  /\ m <= Len(line) /\ IsMonth(line[m])
                  /\ y > m + 1 /\ y <= Len(line)
                  /\ IsDigits(line[y]) /\ CharLen(line[y]) = 4
        C == IF headOk /\ q > y /\ IsAmount(line[q])
             THEN MiddleCandidates(line, y, {q}) ELSE {}
    IN  IF C = {} THEN NoMatch
        ELSE [ok |-> TRUE,
              date |-> SubSeq(line, 1, y),
              desc |-> SubSeq(line, y + FirstCandidate(C)[1] + 1, FirstCandidate(C)[2]),
              amtStr |-> line[q]]

\* lines 54-72: what one line adds to transactions
rblTransactions(line) ==
    LET match == rblMatch(line) IN
    IF ~match.ok THEN <<>>
    ELSE IF \/ parseAmount(match.amtStr) = 0
            \/ includes(toLowerCase(match.desc), <<"description">>)
            \/ includes(toLowerCase(match.desc), <<"amount">>)
    THEN <<>>
    ELSE <<[date |-> Trim(match.date),
            description |-> Trim(match.desc),
            amount |-> parseAmount(match.amtStr),
            type |-> IF /\ includes(toLowerCase(match.desc), <<"payment">>)
                        /\ includes(toLowerCase(match.desc), <<"received">>)
                     THEN "credit" ELSE "debit"]>>

\* line 101 without the trim
AppendContinuation_Untrimmed(current, line) == current \o <<" ">> \o line

\* line 101: currentLine += ' ' + line.trim()
AppendContinuation(current, line) == current \o <<" ">> \o Trim(line)

\* line 112: the match of the ICICI pattern
iciciMatch(line) ==
    LET t == TrimEnd(line)
        isCr == Len(t) >= 1 /\ LowerCase(t[Len(t)]) = "cr"
        q == IF isCr THEN Len(TrimEnd(SubSeq(t, 1, Len(t) - 1))) ELSE Len(t)
        k == SkipSpace(line, 2)
        headOk == /\ Len(line) >= 3
                  /\ IsSlashDate(line[1])
                  /\ IsSpace(line[2])
                  /\ k <= Len(line) /\ IsSerial(line[k])
        C == IF headOk /\ q > k /\ IsAmount(line[q])
             THEN MiddleCandidates(line, k, {q}) ELSE {}
    IN  IF C = {} THEN NoMatch
        ELSE [ok |-> TRUE,
              date |-> <<line[1]>>,
              middlePart |-> SubSeq(line, k + FirstCandidate(C)[1] + 1, FirstCandidate(C)[2]),
              amtStr |-> line[q],
              isCr |-> isCr]

\* line 125: the ends e of a group (.+?) = middlePart[1..e] after which
\* \s+(-?\d+)(?:\s+[\d,]+\.\d{2})?\s*$ matches
descMatchEnds(middlePart) ==
    {e \in 1..Len(middlePart) :
        LET i == SkipSpace(middlePart, e + 1)
            j == SkipSpace(middlePart, i + 1)
        IN  /\ i > e + 1
            /\ i <= Len(middlePart)
            /\ IsDigits(middlePart[i])
            /\ \/ j > Len(middlePart)
               \/ /\ j > i + 1
                  /\ IsAmount(middlePart[j])
                  /\ SkipSpace(middlePart, j + 1) > Len(middlePart)}

\* lines 125-130
iciciDescription(middlePart) ==
    IF descMatchEnds(middlePart) = {} THEN Trim(middlePart)
    ELSE Trim(SubSeq(middlePart, 1, MinOf(descMatchEnds(middlePart))))

\* lines 114-138: what one combined line adds to transactions
iciciTransactions(line) ==
    LET match == iciciMatch(line) IN
    IF ~match.ok THEN <<>>
    ELSE IF \/ parseAmount(match.amtStr) = 0
            \/ includes(toLowerCase(match.middlePart), <<"transaction", " ", "details">>)
    THEN <<>>
    ELSE <<[date |-> Trim(match.date),
            description |-> iciciDescription(match.middlePart),
            amount |-> parseAmount(match.amtStr),
            type |-> IF match.isCr THEN "credit" ELSE "debit"]>>

RECURSIVE JoinLines(_)
\* rawText as one text: the lines with a line feed between them
JoinLines(lines) ==
    IF Len(lines) = 0 THEN <<>>
    ELSE IF Len(lines) = 1 THEN lines[1]
    ELSE lines[1] \o <<"\n">> \o JoinLines(Tail(lines))

\* \s+(.+?)\s+([\d,]+\.\d{2}) after a date that ends at position h
GenericTail(text, h) ==
    MiddleCandidates(text, h, {q \in 1..Len(text) : IsAmount(text[q])})

\* genericTransaction keeping a match whose amount is 0
genericTransaction_ZeroKept(date, desc, amtStr) ==
    IF parseAmount(amtStr) >= 0 /\ TextLen(Trim(desc)) > 5
    THEN <<[date |-> Trim(date),
            description |-> Trim(desc),
            amount |-> parseAmount(amtStr),
            type |-> "debit"]>>
    ELSE <<>>

\* lines 148-157 and 163-172: what one match adds to transactions
genericTransaction(date, desc, amtStr) ==
    IF parseAmount(amtStr) > 0 /\ TextLen(Trim(desc)) > 5
    THEN <<[date |-> Trim(date),
            description |-> Trim(desc),
            amount |-> parseAmount(amtStr),
            type |-> "debit"]>>
    ELSE <<>>

\* the positions from pos on where genericPattern1 matches
Pattern1Starts(text, pos) ==
    {i \in pos..Len(text) : IsSlashDate(text[i]) /\ GenericTail(text, i) # {}}

RECURSIVE genericPattern1(_, _)
\* lines 145-158: the transactions of the matches found from position pos on
genericPattern1(text, pos) ==
    IF Pattern1Starts(text, pos) = {} THEN <<>>
    ELSE LET i == MinOf(Pattern1Starts(text, pos))
             c == FirstCandidate(GenericTail(text, i))
             q == SkipSpace(text, c[2] + 1)
         IN  genericTransaction(<<text[i]>>, SubSeq(text, i + c[1] + 1, c[2]), text[q])
                \o genericPattern1(text, q + 1)

\* the position of the year of \d{1,2}\s+[A-Za-z]{3}\s+\d{4} matched at the
\* end of the word at position i (0 if it does not match there)
Pattern2Year(text, i) ==
    LET m == SkipSpace(text, i + 1)
        y == SkipSpace(text, m + 1)
    IN  IF /\ EndsWithDigit(text[i])
           /\ m > i + 1 /\ m <= Len(text) /\ IsThreeLetters(text[m])
           /\ y > m + 1 /\ y <= Len(text)
           /\ IsDigits(text[y]) /\ CharLen(text[y]) = 4
        THEN y ELSE 0

\* the positions from pos on where genericPattern2 matches
Pattern2Starts(text, pos) ==
    {i \in pos..Len(text) :
        Pattern2Year(text, i) > 0 /\ GenericTail(text, Pattern2Year(text, i)) # {}}

RECURSIVE genericPattern2(_, _)
\* lines 161-173: the transactions of the matches found from position pos on
genericPattern2(text, pos) ==
    IF Pattern2Starts(text, pos) = {} THEN <<>>
    ELSE LET i == MinOf(Pattern2Starts(text, pos))
             y == Pattern2Year(text, i)
             c == FirstCandidate(GenericTail(text, y))
             q == SkipSpace(text, c[2] + 1)
         IN  genericTransaction(<<LastDigits(text[i])>> \o SubSeq(text, i + 1, y),
                                SubSeq(text, y + c[1] + 1, c[2]), text[q])
                \o genericPattern2(text, q + 1)

\* lines 178-180: the two transactions are the same for the filter
SameTransaction(t, tx) ==
    /\ t.date = tx.date
    /\ t.amount = tx.amount
    /\ t.description = tx.description

\* Array.prototype.findIndex, from 1
findIndex(self, tx) ==
    IF \E i \in 1..Len(self) : SameTransaction(self[i], tx)
    THEN MinOf({i \in 1..Len(self) : SameTransaction(self[i], tx)})
    ELSE 0

\* a filter that only drops a transaction that repeats the one just before it
IsFirstOccurrence_AdjacentOnly(self, index) ==
    index = 1 \/ ~SameTransaction(self[index - 1], self[index])

\* lines 177-181: the predicate of the filter
IsFirstOccurrence(self, index) ==
    index = findIndex(self, self[index])

RECURSIVE FilterFrom(_, _)
\* Array.prototype.filter with that predicate, from position index on
FilterFrom(self, index) ==
    IF index > Len(self) THEN <<>>
    ELSE (IF IsFirstOccurrence(self, index) THEN <<self[index]>> ELSE <<>>)
            \o FilterFrom(self, index + 1)

\* lines 177-181: transactions.filter(...)
RemoveDuplicates(self) == FilterFrom(self, 1)

(***************************************************************************)
(* extractTransactionsFromPDF, step by step.                               *)
(***************************************************************************)
\* line 41
isRBL == pdfName.xxxx \/ includes(JoinLines(rawText), <<"RBL", " ", "BANK">>)

\* line 42
isICICI ==
    \/ pdfName.has6529
    \/ pdfName.has4315
    \/ includes(JoinLines(rawText), <<"ICICI", " ", "BANK">>)

\* lines 50-73: one iteration of the loop over the lines, for an RBL statement
RblLine ==
    /\ ppc = "rbl"
    /\ isRBL
    /\ li < Len(rawText)
    /\ li' = li + 1
    /\ transactions' = transactions \o rblTransactions(rawText[li + 1])
    /\ UNCHANGED <<ppc, pdfName, rawText, combinedLines, currentLine, uniqueTransactions>>
    /\ UNCHANGED emiVars
    /\ UNCHANGED auxVars

\* lines 44, 74: the RBL block is over, or is skipped
EndRbl ==
    /\ ppc = "rbl"
    /\ isRBL => li = Len(rawText)
    /\ ppc' = "merge"
    /\ li' = 0
    /\ UNCHANGED <<pdfName, rawText, combinedLines, currentLine, transactions,
                   uniqueTransactions>>
    /\ UNCHANGED emiVars
    /\ UNCHANGED auxVars

\* lines 89-103: one iteration of the loop that combines lines
MergeLine ==
    /\ ppc = "merge"
    /\ isICICI
    /\ li < Len(rawText)
    /\ li' = li + 1
    /\ IF IsTransactionStart(rawText[li + 1])
       THEN /\ combinedLines' = IF Len(currentLine) > 0
                                THEN Append(combinedLines, currentLine)
                                ELSE combinedLines
            /\ currentLine' = rawText[li + 1]
       ELSE IF Len(currentLine) > 0
       THEN /\ currentLine' = AppendContinuation(currentLine, rawText[li + 1])
            /\ UNCHANGED combinedLines
       ELSE UNCHANGED <<combinedLines, currentLine>>
    /\ UNCHANGED <<ppc, pdfName, rawText, transactions, uniqueTransactions>>
    /\ UNCHANGED emiVars
    /\ UNCHANGED auxVars

\* lines 104-107: the last transaction is saved (lines 76, 140: or the ICICI
\* block is skipped)
EndMerge ==
    /\ ppc = "merge"
    /\ isICICI => li = Len(rawText)
    /\ combinedLines' = IF isICICI /\ Len(currentLine) > 0
                        THEN Append(combinedLines, currentLine)
                        ELSE combinedLines
    /\ ppc' = "match"
    /\ li' = 0
    /\ UNCHANGED <<pdfName, rawText, currentLine, transactions, uniqueTransactions>>
    /\ UNCHANGED emiVars
    /\ UNCHANGED auxVars

\* lines 110-139: one iteration of the loop over the combined lines
MatchLine ==
    /\ ppc = "match"
    /\ li < Len(combinedLines)
    /\ li' = li + 1
    /\ transactions' = transactions \o iciciTransactions(combinedLines[li + 1])
    /\ UNCHANGED <<ppc, pdfName, rawText, combinedLines, currentLine, uniqueTransactions>>
    /\ UNCHANGED emiVars
    /\ UNCHANGED auxVars

\* withFallback without the test of line 143
withFallback_Always(found, text) ==
    found \o genericPattern1(text, 1) \o genericPattern2(text, 1)

\* lines 143-174: transactions after the fallback block
withFallback(found, text) ==
    IF Len(found) = 0
    THEN genericPattern1(text, 1) \o genericPattern2(text, 1)
    ELSE found

\* lines 142-174: the generic patterns, if no transaction was found
Fallback ==
    /\ ppc = "match"
    /\ li = Len(combinedLines)
    /\ ppc' = "dedup"
    /\ transactions' = withFallback(transactions, JoinLines(rawText))
    /\ UNCHANGED <<pdfName, rawText, li, combinedLines, currentLine, uniqueTransactions>>
    /\ UNCHANGED emiVars
    /\ UNCHANGED auxVars

\* lines 176-192: duplicates are removed and the extraction is returned
Dedup ==
    /\ ppc = "dedup"
    /\ ppc' = "returned"
    /\ uniqueTransactions' = RemoveDuplicates(transactions)
    /\ UNCHANGED <<pdfName, rawText, li, combinedLines, currentLine, transactions>>
    /\ UNCHANGED emiVars
    /\ UNCHANGED auxVars

(***************************************************************************)
(* ParseSpec: one statement text, of the lines below, is parsed.           *)
(***************************************************************************)
StartLine(date, serial) == <<date, " ", serial, " ">>

Lines ==
    {StartLine("29/12/2025", "12597931313") \o <<"AMAZON", " ", "0", " ", "25.00">>,
     StartLine("30/12/2025", "12597931314") \o <<"AMAZON", " ", "0", " ", "25.00">>,
     StartLine("29/12/2025", "12597931313") \o <<"AMAZON", " ", "0", " ", "25.00", " ", "CR">>,
     StartLine("29/12/2025", "12597931313") \o <<"AMAZON", " ", "0", " ", "0.00">>,
     StartLine("29/12/2025", "12597931313") \o <<"UPI">>,
     <<"IN">>,
     <<" ", "IN", " ">>,
     <<"0", " ", "25.00">>,
     <<"ICICI", " ", "BANK">>,
     <<"Transaction", " ", "Details">>,
     <<"26", " ", "Dec", " ", "2025", " ", "PAYMENT", " ", "RECEIVED", " ", "5,099.00">>,
     <<"26", " ", "Dec", " ", "2025", " ", "PAYMENT", " ", "RECEIVED", " ", "0.00">>,
     <<"29/12/2025", " ", "AMAZON", " ", "25.00">>}

PdfNames ==
    {[xxxx |-> FALSE, has6529 |-> TRUE, has4315 |-> FALSE],
     [xxxx |-> TRUE, has6529 |-> FALSE, has4315 |-> FALSE],
     [xxxx |-> FALSE, has6529 |-> FALSE, has4315 |-> FALSE]}

ParseInit ==
    /\ EmiInit
    /\ input = <<>>
    /\ ppc = "rbl"
    /\ pdfName \in PdfNames
    /\ rawText \in SeqsUpTo(Lines, MaxLines)
    /\ li = 0
    /\ combinedLines = <<>>
    /\ currentLine = <<>>
    /\ transactions = <<>>
    /\ uniqueTransactions = <<>>
    /\ AuxOff

ParseNext ==
    \/ RblLine
    \/ EndRbl
    \/ MergeLine
    \/ EndMerge
    \/ MatchLine
    \/ Fallback
    \/ Dedup

ParseSpec == ParseInit /\ [][ParseNext]_vars

(***************************************************************************)
(* DropSpec: after the statement, the main loop (lines 210-226) parses a   *)
(* second one with the same file name and the same lines but one, a line   *)
(* that matches no transaction pattern.  prevUnique keeps what the first   *)
(* call returned, dropped the position of the line left out.               *)
(***************************************************************************)
\* the line is no transaction start (line 91) and none of the patterns of
\* lines 52, 112, 145 and 161 matches in it
Unrecognized(line) ==
    /\ ~IsTransactionStart(line)
    /\ ~rblMatch(line).ok
    /\ ~iciciMatch(line).ok
    /\ Pattern1Starts(line, 1) = {}
    /\ Pattern2Starts(line, 1) = {}

Without(lines, k) == SubSeq(lines, 1, k - 1) \o SubSeq(lines, k + 1, Len(lines))

ParseWithout ==
    /\ ppc = "returned"
    /\ dropped = 0
    /\ \E k \in 1..Len(rawText) :
          /\ Unrecognized(rawText[k])
          /\ dropped' = k
          /\ rawText' = Without(rawText, k)
    /\ prevUnique' = uniqueTransactions
    /\ ppc' = "rbl"
    /\ li' = 0
    /\ combinedLines' = <<>>
    /\ currentLine' = <<>>
    /\ transactions' = <<>>
    /\ uniqueTransactions' = <<>>
    /\ UNCHANGED <<pdfName, files, stderr, exitCode, epc>>
    /\ UNCHANGED emiVars

DropNext ==
    \/ ParseNext
    \/ ParseWithout

DropSpec == ParseInit /\ [][DropNext]_vars

(***************************************************************************)
(* Properties.                                                             *)
(***************************************************************************)
PlansOf(plans) == {plans[j].plan : j \in 1..Len(plans)}

InstallmentsOf(plan) == {plan.installments[k] : k \in 1..Len(plan.installments)}

WrittenPlans == {output.emiPlans[j] : j \in 1..Len(output.emiPlans)}

TotalIsSum(inst) == inst.total_amount = inst.principal + inst.interest + inst.gst

\* C1: every installment stored in a plan, while installments are added and
\* in the written document, has total_amount = principal + interest + gst.
C1_InstallmentTotal ==
    /\ \A plan \in PlansOf(emiPlans) : \A inst \in InstallmentsOf(plan) : TotalIsSum(inst)
    /\ \A plan \in WrittenPlans : \A inst \in InstallmentsOf(plan) : TotalIsSum(inst)

\* C1 witness: a written plan holds an installment with a principal, an
\* interest and a tax part, all positive.
C1_Witness ==
    /\ pc = "done"
    /\ \E plan \in WrittenPlans : \E inst \in InstallmentsOf(plan) :
          inst.principal > 0 /\ inst.interest > 0 /\ inst.gst > 0

IsMaxOf(n, installments) ==
    /\ \A k \in 1..Len(installments) : installments[k].installment_number <= n
    /\ \/ \E k \in 1..Len(installments) : installments[k].installment_number = n
       \/ (Len(installments) = 0 /\ n = 0)

Counted(plan) ==
    /\ IsMaxOf(plan.installments_paid, plan.installments)
    /\ IF plan.total_installments - plan.installments_paid > 0
       THEN plan.remaining_installments = plan.total_installments - plan.installments_paid
       ELSE plan.remaining_installments = 0

\* C2: after every addEMIInstallment call and in the written document, every
\* plan has installments_paid = the largest installment_number among its
\* installments and remaining_installments = max(0, total_installments - installments_paid).
C2_PaidAndRemaining ==
    /\ \A plan \in PlansOf(emiPlans) : Counted(plan)
    /\ \A plan \in WrittenPlans : Counted(plan)

\* C2 witness: a plan of the Map whose largest number is not that of its
\* first installment (the value the plan was created with), and has nothing
\* remaining; and a written plan with something remaining.
C2_Witness ==
    /\ pc = "done"
    /\ \E plan \in PlansOf(emiPlans) :
          /\ Len(plan.installments) = 2
          /\ plan.installments[1].installment_number = 1
          /\ plan.installments_paid = 2
          /\ plan.remaining_installments = 0
    /\ \E plan \in WrittenPlans : plan.remaining_installments = 1

\* C3: in the written document a plan is completed exactly when nothing
\* remains, and active otherwise.
C3_StatusIffNoneRemaining ==
    pc = "done" =>
        \A plan \in WrittenPlans :
            /\ plan.status \in {"active", "completed"}
            /\ plan.status = "completed" <=> plan.remaining_installments = 0

\* C3 witness: the written document holds a completed and an active plan.
C3_Witness ==
    /\ pc = "done"
    /\ \E plan \in WrittenPlans : plan.status = "completed"
    /\ \E plan \in WrittenPlans : plan.status = "active"

(***************************************************************************)
(* Properties of one statement (ScanSpec).                                 *)
(***************************************************************************)
ParsedTx(i) == parseEMITransaction(txs[i].description)

\* lines i and j of the statement: a principal-marker line and an
\* interest-marker line with the same date and the same <n/m>merchant token
MarkerPair(i, j) ==
    /\ ParsedTx(i).type = "principal"
    /\ ParsedTx(j).type = "interest"
    /\ txs[i].date = txs[j].date
    /\ txs[i].description.token = txs[j].description.token

\* no other principal or interest line of the statement carries that date and token
OnlyPair(i, j) ==
    \A k \in 1..Len(txs) :
        (/\ ParsedTx(k).type \in {"principal", "interest"}
         /\ txs[k].date = txs[i].date
         /\ txs[k].description.token = txs[i].description.token) => k \in {i, j}

RecordsOfLine(i) ==
    {r \in 1..Len(installmentRecords) :
        installmentRecords[r].key = recordKey(txs[i], ParsedTx(i))}

\* the record of line i has been handed to addEMIInstallment
Inserted(r) == (pc = "flush" /\ r < ri) \/ pc \in {"idle", "done"}

\* one record, with the two amounts; once inserted, one installment with the
\* two amounts, whose total is their sum plus the tax attributed to the record
MergedIntoOne(i, j) ==
    /\ Cardinality(RecordsOfLine(i)) = 1
    /\ \A r \in RecordsOfLine(i) :
          /\ installmentRecords[r].principal = txs[i].amount
          /\ installmentRecords[r].interest = txs[j].amount
          /\ Inserted(r) =>
                \E plan \in PlansOf(emiPlans) : \E inst \in InstallmentsOf(plan) :
                    /\ plan.merchant = ParsedTx(i).merchant
                    /\ inst.date = txs[i].date
                    /\ inst.installment_number = ParsedTx(i).installment
                    /\ inst.principal = txs[i].amount
                    /\ inst.interest = txs[j].amount
                    /\ inst.gst = installmentRecords[r].gst
                    /\ inst.total_amount = txs[i].amount + txs[j].amount + inst.gst

\* C6 as stated: any such pair of lines gives exactly one record with
\* principal and interest the two amounts and total their sum, whichever
\* line comes first.
C6_AsStated ==
    \A i, j \in 1..Len(txs) :
        (MarkerPair(i, j) /\ OnlyPair(i, j)) => MergedIntoOne(i, j)

\* C6 amended: the same for a token <n/m>merchant with n >= 1, m >= 1 and a
\* merchant that is not blank.
C6_MergedWhenTokenValid ==
    \A i, j \in 1..Len(txs) :
        (/\ MarkerPair(i, j)
         /\ OnlyPair(i, j)
         /\ txs[i].description.token[1].n >= 1
         /\ txs[i].description.token[1].m >= 1
         /\ Trim(txs[i].description.token[1].text) # <<>>) => MergedIntoOne(i, j)

\* C6 witness: the interest line came first, the principal line second, no
\* tax line; the record is inserted with principal 500, interest 45, total 545.
C6_Witness ==
    /\ pc = "done"
    /\ Len(txs) = 2
    /\ MarkerPair(2, 1)
    /\ \E plan \in PlansOf(emiPlans) : \E inst \in InstallmentsOf(plan) :
          inst.principal = 500 /\ inst.interest = 45 /\ inst.total_amount = 545

IsTaxLine(tx) == parseEMITransaction(tx.description).type = "gst"

ChangedRecords ==
    {r \in 1..Len(installmentRecords) : installmentRecords'[r] # installmentRecords[r]}

\* C9: the step that reads a tax line changes at most one record, one of the
\* tax line's date whose gst is 0, and only its gst, which becomes the tax
\* amount; with no such record it changes nothing; and no step changes a gst
\* that is not 0.
C9_OrphanGst ==
    [][/\ (Len(txs') = Len(txs) + 1 /\ IsTaxLine(txs'[Len(txs')])) =>
            /\ Len(installmentRecords') = Len(installmentRecords)
            /\ Cardinality(ChangedRecords) <= 1
            /\ \A r \in ChangedRecords :
                  /\ installmentRecords[r].date = txs'[Len(txs')].date
                  /\ installmentRecords[r].gst = 0
                  /\ installmentRecords'[r] =
                        [installmentRecords[r] EXCEPT !.gst = txs'[Len(txs')].amount]
            /\ (\E r \in 1..Len(installmentRecords) :
                    /\ installmentRecords[r].date = txs'[Len(txs')].date
                    /\ installmentRecords[r].gst = 0) => ChangedRecords # {}
       /\ \A r \in 1..Len(installmentRecords) :
            (r <= Len(installmentRecords') /\ installmentRecords[r].gst # 0) =>
                installmentRecords'[r].gst = installmentRecords[r].gst
      ]_vars

\* C9 witness: two tax lines of one date and different amounts were read
\* while that date had a single record: the record holds the first amount,
\* the second line was dropped.
C9_Witness ==
    /\ pc = "scan"
    /\ Len(txs) = 3
    /\ ParsedTx(1).type = "principal"
    /\ IsTaxLine(txs[2]) /\ IsTaxLine(txs[3])
    /\ txs[2].date = txs[1].date /\ txs[3].date = txs[1].date
    /\ txs[2].amount # txs[3].amount
    /\ Len(installmentRecords) = 1
    /\ installmentRecords[1].gst = txs[2].amount

SplitBaseKey == <<"7003", "_", "AMAZON", "_", NumStr(Tenure)>>

\* the installments of a plan, in stored order, are numbered 1, 2, ... and
\* are all of one purchase
Consistent(plan) ==
    /\ plan.total_installments = Tenure
    /\ \A k \in 1..Len(plan.installments) :
          /\ plan.installments[k].installment_number = k
          /\ plan.installments[k].principal = plan.installments[1].principal

\* C8: the two purchases never share a plan and no plan holds a number
\* twice; when all statements are read there are exactly two plans, keyed
\* ..._1 and ..._2, each with the installments 1..Tenure of one purchase.
C8_TwoPlans ==
    /\ Len(emiPlans) <= 2
    /\ \A plan \in PlansOf(emiPlans) : Consistent(plan)
    /\ (pc = "done" /\ Len(input) = Tenure + 2) =>
          /\ Len(emiPlans) = 2
          /\ emiPlans[1].key = SplitBaseKey \o <<"_", "1">>
          /\ emiPlans[2].key = SplitBaseKey \o <<"_", "2">>
          /\ Len(emiPlans[1].plan.installments) = Tenure
          /\ Len(emiPlans[2].plan.installments) = Tenure
          /\ emiPlans[1].plan.installments[1].principal = 500
          /\ emiPlans[2].plan.installments[1].principal = 300

\* C8 witness: all statements are read, the second purchase's line came
\* before the first purchase's in each of them, and there are two plans.
C8_Witness ==
    /\ pc = "done"
    /\ Len(input) = Tenure + 2
    /\ input[3].transactions[1].amount = 300
    /\ Len(emiPlans) = 2

\* the written plan of the first purchase (the one that starts in January)
FirstPurchasePlans == {plan \in WrittenPlans : plan.first_installment_date.m = 1}

\* C10: after a run over the statements of the first k months, the plan of
\* the first purchase is active with k installments paid while k < Tenure,
\* and completed with nothing remaining for k = Tenure and every later k.
C10_CompletionTransition ==
    (pc = "done" /\ Len(input) >= 1) =>
        /\ Cardinality(FirstPurchasePlans) = 1
        /\ \A plan \in FirstPurchasePlans :
              IF Len(input) < Tenure
              THEN /\ plan.status = "active"
                   /\ plan.installments_paid = Len(input)
                   /\ plan.remaining_installments = Tenure - Len(input)
              ELSE /\ plan.status = "completed"
                   /\ plan.installments_paid = Tenure
                   /\ plan.remaining_installments = 0

\* C10 witness: a run over one month more than the tenure: the first plan
\* is still completed, the second purchase's plan is active.
C10_Witness ==
    /\ pc = "done"
    /\ Len(input) = Tenure + 1
    /\ \E plan \in FirstPurchasePlans :
          plan.status = "completed" /\ Len(plan.installments) = Tenure
    /\ \E plan \in WrittenPlans : plan.status = "active"

(***************************************************************************)
(* Properties of the line parser (ParseSpec).                              *)
(***************************************************************************)
\* the positions of transactions that repeat no earlier one
FirstOccurrences ==
    {i \in 1..Len(transactions) :
        \A j \in 1..(i - 1) : ~SameTransaction(transactions[j], transactions[i])}

\* the k-th smallest member of a set of numbers
KthOf(S, k) == CHOOSE i \in S : Cardinality({j \in S : j <= i}) = k

\* C5: the returned list holds no two transactions with the same date,
\* amount and description, and is the list of the first occurrences of the
\* transactions found, in the order they were found.
C5_NoRepeats ==
    ppc = "returned" =>
        /\ \A i, j \in 1..Len(uniqueTransactions) :
              i # j => ~SameTransaction(uniqueTransactions[i], uniqueTransactions[j])
        /\ Len(uniqueTransactions) = Cardinality(FirstOccurrences)
        /\ \A k \in 1..Len(uniqueTransactions) :
              uniqueTransactions[k] = transactions[KthOf(FirstOccurrences, k)]

\* C5 witness: three transactions were found, the third repeating the first
\* with another one in between, and two are returned.
C5_Witness ==
    /\ ppc = "returned"
    /\ Len(transactions) = 3
    /\ SameTransaction(transactions[1], transactions[3])
    /\ ~SameTransaction(transactions[1], transactions[2])
    /\ Len(uniqueTransactions) = 2

\* the lines that start a transaction
Starts == {i \in 1..Len(rawText) : IsTransactionStart(rawText[i])}

RECURSIVE SpaceJoined(_, _, _)
\* the lines a..b, each after a space, trimmed or as they are
SpaceJoined(a, b, trimmed) ==
    IF a > b THEN <<>>
    ELSE <<" ">> \o (IF trimmed THEN Trim(rawText[a]) ELSE rawText[a])
            \o SpaceJoined(a + 1, b, trimmed)

\* the start line i with the lines up to the next start line or the end
LogicalLine(i, trimmed) ==
    rawText[i] \o SpaceJoined(i + 1, MinOf({j \in Starts : j > i} \cup {Len(rawText) + 1}) - 1,
                              trimmed)

Folded(trimmed) ==
    /\ Len(combinedLines) = Cardinality(Starts)
    /\ \A k \in 1..Len(combinedLines) :
          combinedLines[k] = LogicalLine(KthOf(Starts, k), trimmed)

MergeDone == isICICI /\ ppc \in {"match", "dedup", "returned"}

\* C7 as stated: each logical line is its start line and the following
\* lines as they are, joined by spaces.
C7_AsStated == MergeDone => Folded(FALSE)

\* C7 amended: there is one logical line per start line, in order: the
\* start line as it is, followed by each later line up to the next start
\* line, trimmed of the white space around it and preceded by one space;
\* lines before the first start line belong to no logical line.
C7_FoldedTrimmed == MergeDone => Folded(TRUE)

\* C7 witness: a start line and two continuation lines, one of them with
\* white space around it, gave one logical line and one transaction.
C7_Witness ==
    /\ ppc = "returned"
    /\ isICICI
    /\ Len(rawText) = 3
    /\ Starts = {1}
    /\ rawText[2] # Trim(rawText[2])
    /\ Len(combinedLines) = 1
    /\ Len(uniqueTransactions) = 1
    /\ uniqueTransactions[1].description = <<"UPI", " ", "IN">>
    /\ uniqueTransactions[1].amount = 25

(***************************************************************************)
(* Properties of the plan keys (KeySpec).                                  *)
(***************************************************************************)
\* the step is an addEMIInstallment call
Inserts == pc = "flush" /\ ri' = ri + 1

\* the positions of the plans the call created or changed
Touched == {j \in 1..Len(emiPlans') : j > Len(emiPlans) \/ emiPlans'[j] # emiPlans[j]}

\* C11 as stated: a record is only ever placed in a plan of its own card,
\* merchant and number of installments, so that every installment of a plan
\* has the plan's total_installments.
C11_AsStated ==
    [][Inserts =>
        /\ \A j \in Touched :
              /\ emiPlans'[j].plan.card_last4 = cardInfo.last4
              /\ emiPlans'[j].plan.merchant = installmentRecords[ri].merchant
              /\ emiPlans'[j].plan.total_installments = installmentRecords[ri].total
        /\ \A plan \in PlansOf(emiPlans') : \A k \in 1..Len(plan.installments) :
              plan.installments[k].total_installments = plan.total_installments]_vars

(***************************************************************************)
(* Properties of the missing input file (IoSpec).                          *)
(***************************************************************************)
\* the messages that name the command of the upstream step
Directs == {PlansNotFound}

DirectivePrinted == \E k \in 1..Len(stderr) : stderr[k] \in Directs

\* C12 as stated: a program whose input file does not exist ends in a fatal
\* error, with a message that directs to the upstream extraction step.
C12_AsStated ==
    /\ (exitCode.extract # -1 /\ ~files.extractions) =>
          (exitCode.extract > 0 /\ DirectivePrinted)
    /\ (exitCode.enrich # -1 /\ ~PlansFileExists) =>
          (exitCode.enrich > 0 /\ DirectivePrinted)

(***************************************************************************)
(* Properties of the choice of the plan (KeySpec).                         *)
(***************************************************************************)
\* the record the call is made for
Inserting == emiDataOf(installmentRecords[ri])

\* the text every key of the record's (last4, merchant, total) starts with
InsertingPrefix ==
    <<cardInfo.last4, "_">> \o Inserting.merchant \o <<"_", NumStr(Inserting.total), "_">>

UnderPrefix(j) == StartsWith(emiPlans[j].key, InsertingPrefix)

\* days between the date of the record and the date of the last installment
\* of the plan; both dates must be readable
GapOf(plan, emiData) ==
    daysBetween(parseIndianDate(plan.installments[Len(plan.installments)].date),
                parseIndianDate(emiData.date))

Qualifies(plan, emiData) ==
    /\ \A k \in 1..Len(plan.installments) :
          emiData.installment > plan.installments[k].installment_number
    /\ ~GapOf(plan, emiData).nan
    /\ GapOf(plan, emiData).v >= 20

\* the plan at position j has the installment made of the record
Holds(plan, emiData) ==
    \E k \in 1..Len(plan.installments) :
        /\ plan.installments[k].date = emiData.date
        /\ plan.installments[k].installment_number = emiData.installment
        /\ plan.installments[k].total_installments = emiData.total

\* C13: a call of addEMIInstallment changes an existing plan only if the plan
\* is under the record's prefix, the record's installment number is greater
\* than every installment number of the plan and the record's date is at
\* least 20 days from the plan's last installment date; no plan created
\* earlier qualifies as well; and when some plan qualifies, no plan is created
\* and the first of them gets the installment.
C13_SlotSelection ==
    [][Inserts =>
        /\ \A j \in 1..Len(emiPlans) :
              emiPlans'[j] # emiPlans[j] =>
                  /\ UnderPrefix(j)
                  /\ Qualifies(emiPlans[j].plan, Inserting)
                  /\ \A i \in 1..(j - 1) :
                        ~(UnderPrefix(i) /\ Qualifies(emiPlans[i].plan, Inserting))
                  /\ Len(emiPlans'[j].plan.installments)
                        = Len(emiPlans[j].plan.installments) + 1
                  /\ Holds(emiPlans'[j].plan, Inserting)
        /\ (\E j \in 1..Len(emiPlans) : UnderPrefix(j) /\ Qualifies(emiPlans[j].plan, Inserting))
              => /\ Len(emiPlans') = Len(emiPlans)
                 /\ \E j \in 1..Len(emiPlans) : emiPlans'[j] # emiPlans[j]]_vars

\* the last call appended its record to the first of two plans of merchant
\* SHOP that both qualified
C13_Witness ==
    /\ pc = "flush"
    /\ ri > 1
    /\ Len(emiPlans) >= 2
    /\ emiPlans[1].plan.merchant = <<"SHOP">>
    /\ emiPlans[2].plan.merchant = <<"SHOP">>
    /\ Len(emiPlans[1].plan.installments) = 2
    /\ Holds(emiPlans[1].plan, emiDataOf(installmentRecords[ri - 1]))
    /\ Qualifies(emiPlans[2].plan, emiDataOf(installmentRecords[ri - 1]))

(***************************************************************************)
(* Properties of the creation of a plan (KeySpec).                         *)
(***************************************************************************)
\* the plan at position j was created for the record's card, merchant and
\* number of installments
OfInsertingGroup(j) ==
    /\ emiPlans[j].plan.card_last4 = cardInfo.last4
    /\ emiPlans[j].plan.merchant = Inserting.merchant
    /\ emiPlans[j].plan.total_installments = Inserting.total

GroupSize == Cardinality({j \in 1..Len(emiPlans) : OfInsertingGroup(j)})

\* the keys of the plans of one card, merchant and number of installments
GroupKeys(plans, plan) ==
    {plans[j].key : j \in {i \in 1..Len(plans) :
        /\ plans[i].plan.card_last4 = plan.card_last4
        /\ plans[i].plan.merchant = plan.merchant
        /\ plans[i].plan.total_installments = plan.total_installments}}

GroupPrefix(plan) ==
    <<plan.card_last4, "_">> \o plan.merchant \o <<"_", NumStr(plan.total_installments), "_">>

\* C14 as stated: when no plan of the record's (last4, merchant, total) can
\* take the record, the call creates exactly one plan, under a key that is
\* new and is the prefix followed by 1 + the number of plans of that
\* (last4, merchant, total), and changes no other plan; so the keys of the
\* k plans of a (last4, merchant, total) end in 1..k.
C14_AsStated ==
    [][Inserts =>
        /\ (\A j \in 1..Len(emiPlans) :
                OfInsertingGroup(j) => ~Qualifies(emiPlans[j].plan, Inserting))
              => /\ Len(emiPlans') = Len(emiPlans) + 1
                 /\ \A j \in 1..Len(emiPlans) : emiPlans'[j] = emiPlans[j]
                 /\ emiPlans'[Len(emiPlans')].key = InsertingPrefix \o <<NumStr(GroupSize + 1)>>
                 /\ \A j \in 1..Len(emiPlans) : emiPlans[j].key # emiPlans'[Len(emiPlans')].key
        /\ \A plan \in PlansOf(emiPlans') :
              GroupKeys(emiPlans', plan)
                = {GroupPrefix(plan) \o <<NumStr(k)>> :
                      k \in 1..Cardinality(GroupKeys(emiPlans', plan))}]_vars

(***************************************************************************)
(* Properties of the choice of the record of a tax line (GstSpec).         *)
(***************************************************************************)
\* the step reads a tax line
ReadsTaxLine ==
    /\ pc = "scan"
    /\ Len(txs') = Len(txs) + 1
    /\ IsTaxLine(txs'[Len(txs')])

\* the records the tax amount can go to
OpenRecords ==
    {r \in 1..Len(installmentRecords) :
        /\ installmentRecords[r].date = txs'[Len(txs')].date
        /\ installmentRecords[r].gst = 0}

\* the positions of the lines that were merged into record r
LinesOf(r) ==
    {k \in 1..Len(txs) :
        /\ IsInstallmentLine(ParsedTx(k))
        /\ recordKey(txs[k], ParsedTx(k)) = installmentRecords[r].key}

\* the line that created record r
OriginOf(r) == CHOOSE k \in LinesOf(r) : \A l \in LinesOf(r) : k <= l

\* the last line merged into record r
LatestOf(r) == CHOOSE k \in LinesOf(r) : \A l \in LinesOf(r) : k >= l

\* C15 as stated: the record that gets the tax amount is, of the records of
\* the tax line's date with gst 0, one whose originating line is nearest to
\* the tax line.
C15_AsStated ==
    [][ReadsTaxLine =>
        \A r \in ChangedRecords : \A c \in OpenRecords :
            Abs(OriginOf(r) - Len(txs')) <= Abs(OriginOf(c) - Len(txs'))]_vars

\* C15 amended: when there are records of the tax line's date with gst 0, the
\* tax amount goes to exactly one of them, the one whose last merged line
\* (principal or interest) is nearest to the tax line.
C15_NearestLatestLine ==
    [][ReadsTaxLine =>
        /\ OpenRecords # {} => Cardinality(ChangedRecords) = 1
        /\ \A r \in ChangedRecords :
              /\ r \in OpenRecords
              /\ installmentRecords'[r].gst = txs'[Len(txs')].amount
              /\ \A c \in OpenRecords :
                    Abs(LatestOf(r) - Len(txs')) <= Abs(LatestOf(c) - Len(txs'))]_vars

\* principal of NETFLIX, principal of AMAZON, interest of NETFLIX, tax: the
\* tax went to NETFLIX, whose last line is next to the tax line, and not to
\* AMAZON, whose originating line is nearer than that of NETFLIX
C15_Witness ==
    /\ pc = "scan"
    /\ Len(txs) = 4
    /\ IsTaxLine(txs[4])
    /\ Len(installmentRecords) = 2
    /\ OriginOf(1) = 1 /\ LatestOf(1) = 3
    /\ OriginOf(2) = 2
    /\ installmentRecords[1].gst = 18
    /\ installmentRecords[2].gst = 0

(***************************************************************************)
(* Properties of the status while the plans are assembled (KeySpec).       *)
(***************************************************************************)
\* C16 as stated: before finalisation, a plan in the Map has the status
\* 'completed' exactly when its remaining_installments is 0.
C16_AsStated ==
    pc # "done" =>
        \A plan \in PlansOf(emiPlans) :
            plan.status = "completed" <=> plan.remaining_installments = 0

\* C16 amended: before finalisation every plan in the Map has the status
\* 'active', also when its remaining_installments is 0; the plans of the
\* written document have the status 'completed' exactly when their
\* remaining_installments is 0.
C16_ActiveUntilFinalized ==
    /\ pc # "done" => \A plan \in PlansOf(emiPlans) : plan.status = "active"
    /\ pc = "done" =>
          \A plan \in WrittenPlans :
              plan.status = "completed" <=> plan.remaining_installments = 0

\* the call for installment 2 of 2 has been made: nothing remains, and the
\* plan is 'active'
C16_Witness ==
    /\ pc = "flush"
    /\ ri > 1
    /\ \E plan \in PlansOf(emiPlans) :
          /\ plan.remaining_installments = 0
          /\ plan.installments_paid = plan.total_installments
          /\ plan.status = "active"

(***************************************************************************)
(* Properties of the lines that match no pattern (DropSpec).               *)
(***************************************************************************)
\* C17 as stated: a line that matches no transaction pattern is dropped: the
\* statement without the line gives the same transactions as the statement
\* with it.
C17_AsStated ==
    (ppc = "returned" /\ dropped # 0) => uniqueTransactions = prevUnique

(***************************************************************************)
(* Properties of the fallback (ParseSpec).                                 *)
(***************************************************************************)
FallbackStep == ppc = "match" /\ ppc' = "dedup"

ReturnStep == ppc = "dedup" /\ ppc' = "returned"

\* what the generic patterns find in the statement
GenericFinds ==
    genericPattern1(JoinLines(rawText), 1) \o genericPattern2(JoinLines(rawText), 1)

\* C18: the fallback block changes the transactions only when the
\* bank-specific layouts found none, and then to what the generic patterns
\* find; when they found some, these stay as they are, and every transaction
\* returned is one of them.
C18_FallbackOnlyWhenNone ==
    [][/\ FallbackStep =>
            /\ Len(transactions) > 0 => transactions' = transactions
            /\ Len(transactions) = 0 => transactions' = GenericFinds
       /\ ReturnStep =>
            \A k \in 1..Len(uniqueTransactions') :
                \E j \in 1..Len(transactions) : uniqueTransactions'[k] = transactions[j]]_vars

\* an ICICI statement is returned with a transaction, and what the generic
\* patterns find in its text is not returned
C18_Witness ==
    /\ ppc = "returned"
    /\ pdfName.has6529
    /\ Len(uniqueTransactions) >= 1
    /\ Len(GenericFinds) >= 1
    /\ \A k \in 1..Len(GenericFinds) : \A j \in 1..Len(uniqueTransactions) :
          GenericFinds[k] # uniqueTransactions[j]

(***************************************************************************)
(* Properties of the amounts (ParseSpec).                                  *)
(***************************************************************************)
\* C19: no transaction found, by the RBL layout, the ICICI layout or the
\* generic patterns, and no transaction returned has the amount 0.
C19_NoZeroAmount ==
    /\ \A k \in 1..Len(transactions) : transactions[k].amount # 0
    /\ \A k \in 1..Len(uniqueTransactions) : uniqueTransactions[k].amount # 0

\* the line is a row of the RBL layout whose amount is 0.00
ZeroRblRow(line) == rblMatch(line).ok /\ line[Len(line)] = "0.00"

\* an RBL statement with a row of amount 0.00 and a row of another amount is
\* returned with the one transaction of the latter
C19_Witness ==
    /\ ppc = "returned"
    /\ pdfName.xxxx
    /\ \E k \in 1..Len(rawText) : ZeroRblRow(rawText[k])
    /\ Len(uniqueTransactions) = 1
    /\ uniqueTransactions[1].amount = 5099

(***************************************************************************)
(* Properties of the dates that cannot be parsed (KeySpec).                *)
(***************************************************************************)
Unparseable(inst) == parseIndianDate(inst.date).nan

AllPlans == PlansOf(emiPlans) \cup WrittenPlans

AllInstallments == UNION {InstallmentsOf(plan) : plan \in AllPlans}

\* the place of a month's English abbreviation in the alphabet:
\* Apr Aug Dec Feb Jan Jul Jun Mar May Nov Oct Sep
MonthRank(m) == <<5, 4, 8, 1, 9, 7, 6, 2, 12, 11, 10, 3>>[m]

\* "DD Mon YYYY" < "DD Mon YYYY" as strings, for days of two digits
RawLess(a, b) ==
    \/ a.d < b.d
    \/ a.d = b.d /\ MonthRank(a.m) < MonthRank(b.m)
    \/ a.d = b.d /\ a.m = b.m /\ a.y < b.y

CalendarDay(date) == CivilDay(date.d, date.m, date.y)

\* the statement is the installments 1, 2, ... of the purchase, in order,
\* each at least 20 days after the one before, all dated in the form fmt
SuccessiveInstallments(fmt) ==
    /\ Len(txs) >= 2
    /\ \A k \in 1..Len(txs) :
          /\ txs[k].date.fmt = fmt
          /\ ParsedTx(k).installment = k
          /\ k > 1 => CalendarDay(txs[k].date) - CalendarDay(txs[k - 1].date) >= 20

\* all records of the statement are inserted
AllInserted == pc \in {"idle", "done"} /\ fi = 1

OnePlanOfAll ==
    /\ Len(emiPlans) = 1
    /\ Len(emiPlans[1].plan.installments) = Len(txs)

\* C21 as stated: successive installments of one purchase, at least 20 days
\* apart and in order, all join one plan, whether their dates are in the
\* form DD/MM/YYYY or "DD Mon YYYY".
C21_AsStated ==
    (AllInserted /\ (SuccessiveInstallments("slash") \/ SuccessiveInstallments("mon")))
        => OnePlanOfAll

(***************************************************************************)
(* Properties of the order of processing (TwiceSpec).                      *)
(***************************************************************************)
RECURSIVE CountInstallments(_)
\* the number of installments the plans hold
CountInstallments(plans) ==
    IF Len(plans) = 0 THEN 0
    ELSE Len(Head(plans).plan.installments) + CountInstallments(Tail(plans))

\* the step takes up the next extraction of the same run
NextFileStep == fi' # fi /\ run' = run

\* C22: extractions are taken up one at a time in the order of the input,
\* the next one only when every record of the one before is inserted; a
\* record is inserted only when all lines of its statement are read, so that
\* the tax amounts are assigned and the records no longer change; the records
\* are inserted one by one in the order their keys were first seen in the
\* statement, each adding one installment to the plans the earlier
\* statements and records have built.
C22_SequentialReduction ==
    [][/\ NextFileStep =>
            /\ fi' = fi + 1
            /\ pc = "idle"
            /\ fi > 0 => ri = Len(installmentRecords) + 1
            /\ cardInfo' = extractCardInfo(input[fi'].filename)
            /\ emiPlans' = emiPlans
       /\ Inserts =>
            /\ txs = input[fi].transactions
            /\ installmentRecords' = installmentRecords
            /\ \A r1, r2 \in 1..Len(installmentRecords) :
                  r1 < r2 => OriginOf(r1) < OriginOf(r2)
            /\ \E j \in 1..Len(emiPlans') : Holds(emiPlans'[j].plan, Inserting)
            /\ CountInstallments(emiPlans') = CountInstallments(emiPlans) + 1
       /\ emiPlans' # emiPlans => (Inserts \/ run' # run)]_vars

\* the second record of the second statement is about to be inserted; the
\* plans hold the installment of the first statement, with its tax amount,
\* and the first record of the second
C22_Witness ==
    /\ pc = "flush"
    /\ fi = 2
    /\ ri = 2
    /\ Len(installmentRecords) = 2
    /\ CountInstallments(emiPlans) = 2
    /\ \E plan \in PlansOf(emiPlans) : \E inst \in InstallmentsOf(plan) :
          inst.gst > 0 /\ inst.date = input[1].transactions[1].date

(***************************************************************************)
(* The totals of the finaliser.                                            *)
(***************************************************************************)
\* C23 as stated: every plan of the written document has amount_financed the
\* sum of the principal of its installments, total_interest the sum of their
\* interest, total_gst the sum of their gst, total_amount the sum
\* amount_financed + total_interest + total_gst, and total_amount equal to
\* the sum of the total_amount of its installments.
C23_AsStated ==
    \A e \in WrittenPlans :
        /\ e.amount_financed = SumOver(e.installments, "principal")
        /\ e.total_interest = SumOver(e.installments, "interest")
        /\ e.total_gst = SumOver(e.installments, "gst")
        /\ e.total_amount = fadd(fadd(e.amount_financed, e.total_interest), e.total_gst)
        /\ e.total_amount = SumOver(e.installments, "total_amount")

\* C23: every plan of the written document has amount_financed the sum of
\* the principal of its installments, total_interest the sum of their
\* interest and total_gst the sum of their gst, each added up from 0 in the
\* order of the list, and total_amount the sum
\* (amount_financed + total_interest) + total_gst of these three numbers.
C23_FinalizerTotals ==
    \A e \in WrittenPlans :
        /\ e.amount_financed = SumOver(e.installments, "principal")
        /\ e.total_interest = SumOver(e.installments, "interest")
        /\ e.total_gst = SumOver(e.installments, "gst")
        /\ e.total_amount = fadd(fadd(e.amount_financed, e.total_interest), e.total_gst)

\* a written plan of two installments, the first with principal 1234.56 and
\* interest 27.78, the second with principal 1234.56: its total_amount,
\* (1234.56 + 1234.56) + 27.78 = 2496.9, is not the sum of the total_amount
\* of the two, (1234.56 + 27.78) + 1234.56 = 2496.8999999999996
C23_Witness ==
    /\ pc = "done"
    /\ \E e \in WrittenPlans :
          /\ Len(e.installments) = 2
          /\ e.installments[1].principal = Rs1234_56
          /\ e.installments[1].interest = Rs27_78
          /\ e.installments[2].principal = Rs1234_56
          /\ e.installments[2].interest = 0
          /\ e.total_amount = FloatCode(31)
          /\ SumOver(e.installments, "total_amount") = FloatCode(30)

(***************************************************************************)
(* The order of a plan's installments (RblSpec).                           *)
(***************************************************************************)
\* the installments of the list are in non-decreasing order of their dates
InDateOrder(installments) ==
    \A k, l \in 1..Len(installments) :
        k < l => /\ ~Unparseable(installments[k])
                 /\ ~Unparseable(installments[l])
                 /\ CalendarDay(installments[k].date) <= CalendarDay(installments[l].date)

RECURSIVE LineSum(_, _, _)
LineSum(k, key, type) ==
    IF k = 0 THEN 0
    ELSE IF /\ IsInstallmentLine(ParsedTx(k))
            /\ ParsedTx(k).type = type
            /\ recordKey(txs[k], ParsedTx(k)) = key
         THEN fadd(LineSum(k - 1, key, type), txs[k].amount)
         ELSE LineSum(k - 1, key, type)

\* the lines read so far that carry the key
LinesWithKey(key) ==
    {k \in 1..Len(txs) :
        IsInstallmentLine(ParsedTx(k)) /\ recordKey(txs[k], ParsedTx(k)) = key}

\* there is a record for a key exactly when a line read so far carries the
\* key, and its amounts are the sums over those lines
RecordsAreSums ==
    /\ \A k \in 1..Len(txs) :
          IsInstallmentLine(ParsedTx(k)) => Cardinality(RecordsOfLine(k)) = 1
    /\ \A r \in 1..Len(installmentRecords) :
          /\ LinesWithKey(installmentRecords[r].key) # {}
          /\ installmentRecords[r].principal =
                LineSum(Len(txs), installmentRecords[r].key, "principal")
          /\ installmentRecords[r].interest =
                LineSum(Len(txs), installmentRecords[r].key, "interest")

\* a step that creates a record leaves it with the amount of the line that
\* created it as the one component and 0 as the other and as gst
CreatedFromZero ==
    Len(installmentRecords') = Len(installmentRecords) + 1 =>
        LET rec == installmentRecords'[Len(installmentRecords')]
            tx == txs'[Len(txs')]
        IN  /\ rec.gst = 0
            /\ <<rec.principal, rec.interest>> \in {<<tx.amount, 0>>, <<0, tx.amount>>}

\* C25: within one statement a record is created, with principal = interest
\* = gst = 0, by the first line that carries its key, which adds its amount;
\* at every moment the record's principal is the sum of the amounts of all
\* principal-marker lines read so far with that key and its interest the sum
\* of the amounts of all interest-marker lines with that key: later lines
\* add, they never overwrite.
C25_Accumulation == []RecordsAreSums /\ [][CreatedFromZero]_vars

\* two principal lines and one interest line with one key have been read:
\* the record holds principal 1000 and interest 45
C25_Witness ==
    /\ Len(txs) = 3
    /\ Len(installmentRecords) = 1
    /\ ParsedTx(1).type = "principal"
    /\ ParsedTx(2).type = "interest"
    /\ ParsedTx(3).type = "principal"
    /\ installmentRecords[1].principal = 1000
    /\ installmentRecords[1].interest = 45

(***************************************************************************)
(* The life of plans and installments during a run (Spec).                 *)
(***************************************************************************)
\* every plan of the Map is still there, under its key and at its place, with
\* every installment it had
PlansKept ==
    /\ Len(emiPlans') >= Len(emiPlans)
    /\ \A j \in 1..Len(emiPlans) :
          /\ emiPlans'[j].key = emiPlans[j].key
          /\ Len(emiPlans'[j].plan.installments) >= Len(emiPlans[j].plan.installments)
          /\ InstallmentsOf(emiPlans[j].plan) \subseteq InstallmentsOf(emiPlans'[j].plan)

\* the record being inserted goes into one plan, as one installment
InsertedOnce ==
    /\ Cardinality(Touched) = 1
    /\ \A j \in Touched :
          /\ Holds(emiPlans'[j].plan, Inserting)
          /\ Len(emiPlans'[j].plan.installments) =
                (IF j > Len(emiPlans) THEN 0 ELSE Len(emiPlans[j].plan.installments)) + 1
    /\ CountInstallments(emiPlans') = CountInstallments(emiPlans) + 1

\* C26: during a run no step removes a plan from the Map or an installment
\* from a plan; the records built from a statement are inserted one after the
\* other, from the first to the last, each by a step that adds one
\* installment to one plan, and the next statement is taken up only when the
\* last is inserted; no other step changes the plans: the number of
\* installments of all plans is the number of records inserted.
C26_Lifecycle ==
    [][/\ PlansKept
       /\ Inserts => InsertedOnce
       /\ ~Inserts => emiPlans' = emiPlans
       /\ (pc # "flush" /\ pc' = "flush") => ri' = 1
       /\ pc = "flush" =>
             /\ installmentRecords' = installmentRecords
             /\ ri' \in {ri, ri + 1}
             /\ pc' # "flush" => ri = Len(installmentRecords) + 1]_vars

\* the second statement's record has been inserted into the plan that holds
\* the record of the first: two records built, two installments, one plan
C26_Witness ==
    /\ fi = 2
    /\ pc = "idle"
    /\ Len(installmentRecords) = 1
    /\ Len(emiPlans) = 1
    /\ CountInstallments(emiPlans) = 2

(***************************************************************************)
(* The installment numbers of a plan (RblSpec).                            *)
(***************************************************************************)
\* no two installments of the plan carry the same installment number
DistinctNumbers(plan) ==
    \A k, l \in 1..Len(plan.installments) :
        k # l => plan.installments[k].installment_number
                    # plan.installments[l].installment_number

\* C27: a record inserted into a plan that exists carries an installment
\* number greater than that of every installment the plan holds, so that the
\* numbers of a plan increase strictly in the order of insertion; and no plan
\* ever holds two installments with the same installment number.
C27_IncreasingNumbers ==
    /\ [](\A plan \in AllPlans : DistinctNumbers(plan))
    /\ [][Inserts =>
             \A j \in Touched :
                 j <= Len(emiPlans) =>
                     \A inst \in InstallmentsOf(emiPlans[j].plan) :
                         inst.installment_number < Inserting.installment]_vars

\* the statement is read and its three records are inserted: one plan holds
\* the installments 1, 2 and 3 of the purchase
C27_Witness ==
    /\ pc = "idle"
    /\ fi = 1
    /\ Len(emiPlans) = 1
    /\ Len(installmentRecords) = 3
    /\ Len(emiPlans[1].plan.installments) = 3
    /\ emiPlans[1].plan.installments_paid = 3

\* C28 as stated: the installments of every plan, read in the order they are
\* stored in, the order of their dates, have strictly increasing installment
\* numbers: an installment dated later never carries a smaller number than
\* one dated earlier.
C28_AsStated ==
    \A plan \in AllPlans :
        \A k, l \in 1..Len(plan.installments) :
            k < l => plan.installments[k].installment_number
                        < plan.installments[l].installment_number

(***************************************************************************)
(* Tax lines and the records that exist when they are read (ScanSpec).     *)
(***************************************************************************)
\* the installment lines of the statement, read so far, that carry the date
SameDateLines(date) ==
    {k \in 1..Len(txs) : IsInstallmentLine(ParsedTx(k)) /\ txs[k].date = date}

\* the tax lines read after record r was created that carry its date
TaxLinesAfter(r) ==
    {k \in 1..Len(txs) :
        /\ IsTaxLine(txs[k])
        /\ txs[k].date = installmentRecords[r].date
        /\ k > OriginOf(r)}

RECURSIVE RecordsFrom(_, _)
RecordsFrom(lines, k) ==
    IF k = 0 THEN <<>>
    ELSE ScanStep(RecordsFrom(lines, k - 1), lines[k], k - 1)

\* the plans the first k of the records give when inserted into an empty Map
RECURSIVE PlansFrom(_, _, _)
PlansFrom(records, k, card) ==
    IF k = 0 THEN <<>>
    ELSE addEMIInstallment(PlansFrom(records, k - 1, card), emiDataOf(records[k]), card)

\* the plans of an input that holds the extraction once
OnceOnly(extraction) ==
    PlansFrom(RecordsFrom(extraction.transactions, Len(extraction.transactions)),
              Len(RecordsFrom(extraction.transactions, Len(extraction.transactions))),
              extractCardInfo(extraction.filename))

\* C30 as stated: when the input holds the same extraction twice, the written
\* document has the plans and the totals of the input that holds it once: no
\* installment is counted twice and no further plan is created.
C30_AsStated ==
    (pc = "done" /\ Len(input) = 2 /\ input[1] = input[2]) =>
        output = OutputDocument(OnceOnly(input[1]), output.extractedAt)

====
